---- MODULE Spec2Model ----
(***************************************************************************)
(* A model of the fixed-region memory allocator (fmem/fmem.c, list/list.c).*)
(* Addresses and sizes are in bytes.  The build modelled is the unit-test  *)
(* build (-D __UNIT_TESTING__ -D __BAD_MEM__), the only one in which the   *)
(* poison check compiles.  Region lengths stay far below 2^32, so the      *)
(* uint32_t size field never truncates in the specifications below.        *)
(***************************************************************************)
EXTENDS Integers, Sequences, FiniteSets, TLC

VARIABLES
  pg,      \* the page headers of the region: header address -> struct fmem_page
  fm,      \* the accounting block stashed in the head page (struct fmem)
  length,  \* the length handed to the last fmem_create_new
  handle,  \* what the last fmem_create_new returned (0 before any call)
  live,    \* the client's live allocations: address returned -> size asked
  disk,    \* persisted image of page headers: header address -> struct fmem_page
  diskFm,  \* persisted image of the accounting block
  synced,  \* every call since creation ran under the copying committer
  last,    \* the last completed call: operation, argument, result
  calls,   \* the committer invocations of the last completed call
  pc,      \* per thread: where the thread is in its call
  tl,      \* per thread: the locals of the call in progress
  seqPg,   \* page headers of the sequential execution in lock order
  seqFm    \* accounting block of the sequential execution in lock order

vars == <<pg, fm, length, handle, live, disk, diskFm, synced, last,
          calls, pc, tl, seqPg, seqFm>>

----------------------------------------------------------------------------
(* Sizes and constants of the program (LP64).                              *)

SizeofFmemPage == 24   \* uint32 flags, uint32 size, struct list_head
SizeofListHead == 16   \* two pointers: next, prev
SizeofFmem     == 72   \* struct fmem, padded to 8
SizeofPtr      == 8
OffsetofList   == 8    \* offsetof(struct fmem_page, list)

PAGE_OVERHEAD    == SizeofFmemPage
PAGE_REMAIN_FREE == 2 * SizeofFmemPage

CAN_NOT_FIT    == 0
FIT_AS_IS      == 1
FIT_WITH_CARVE == 2

POISON == 48879        \* 0xBEEF

MIN_TOTAL_ALLOCATION == 3 * SizeofFmemPage + SizeofFmem
DEFAULT_MIN_ALLOC    == SizeofFmemPage
E_TOTAL_ALLOCATION_SIZE_TOO_SMALL == -1
E_COMMIT_FAILED == -2
E_BAD_INIT_MEM  == -2
FMEM_E_NOMEM    == -1
EE_BAD_MEM      == -2

NULL == 0

\* committer_t values: NULL, a committer that copies the ranges it is given
\* into the persisted image and returns 0, and one that returns -1.
CopyCommitter == 1
FailCommitter == 2
\* the committer of the example program: it syncs the ranges to the file and
\* returns the length of the range when given one, 1 when given several
TheCommitter == 3
Committers == {NULL, CopyCommitter, FailCommitter}

BusyBit == 32768       \* 1 << 15

----------------------------------------------------------------------------
(* Bounds of the model.                                                    *)

RegionBase == 1000     \* the address of the region (on_mem)
MaxLength  == 312      \* the longest region created
MaxSize    == 50       \* the largest allocation asked for

LengthSet   == {10, MIN_TOTAL_ALLOCATION, MaxLength}
MinAllocSet == {5, MaxSize - 10}
SizeSet     == {1, 30, MaxSize}
Threads     == {1, 2}

----------------------------------------------------------------------------
(* list/list.c.  A struct list_head lives inside a page header; a pointer  *)
(* to it is the page address plus OffsetofList.                            *)

list_entry(ptr) == ptr - OffsetofList
ListOf(fpage)   == fpage + OffsetofList

list_head_init(P, l) ==
  LET P1 == [P  EXCEPT ![list_entry(l)].next = l]
  IN  [P1 EXCEPT ![list_entry(l)].prev = l]

list_add_after(P, current, new) ==
  LET next == P[list_entry(current)].next
      P1 == [P  EXCEPT ![list_entry(next)].prev = new]
      P2 == [P1 EXCEPT ![list_entry(new)].next = next]
      P3 == [P2 EXCEPT ![list_entry(new)].prev = current]
  IN  [P3 EXCEPT ![list_entry(current)].next = new]

\* variant: the predecessor is not told of the new entry
list_add_before_unseen(P, current, new) ==
  LET prev == P[list_entry(current)].prev
      P1 == [P  EXCEPT ![list_entry(new)].prev = prev]
      P2 == [P1 EXCEPT ![list_entry(new)].next = current]
  IN  [P2 EXCEPT ![list_entry(current)].prev = new]

list_add_before(P, current, new) ==
  LET prev == P[list_entry(current)].prev
      P1 == [P  EXCEPT ![list_entry(new)].prev = prev]
      P2 == [P1 EXCEPT ![list_entry(new)].next = current]
      P3 == [P2 EXCEPT ![list_entry(current)].prev = new]
  IN  [P3 EXCEPT ![list_entry(prev)].next = new]

\* variant: the node removed stays the predecessor of its successor
list_remove_at_forward(P, current) ==
  LET prev == P[list_entry(current)].prev
      next == P[list_entry(current)].next
  IN  [P EXCEPT ![list_entry(prev)].next = next]

list_remove_at(P, current) ==
  LET prev == P[list_entry(current)].prev
      next == P[list_entry(current)].next
      P1 == [P EXCEPT ![list_entry(prev)].next = next]
  IN  [P1 EXCEPT ![list_entry(next)].prev = prev]

\* list_for_each from head, head itself first: the pages of the list in
\* next-order.  n bounds the walk by the number of headers.
RECURSIVE ListFrom(_, _, _, _)
ListFrom(P, cur, head, n) ==
  IF cur = head \/ n = 0 \/ list_entry(cur) \notin DOMAIN P THEN <<>>
  ELSE <<list_entry(cur)>> \o ListFrom(P, P[list_entry(cur)].next, head, n - 1)

\* list_for_each_backward from head: the entries in prev-order
RECURSIVE ListFromBackward(_, _, _, _)
ListFromBackward(P, cur, head, n) ==
  IF cur = head \/ n = 0 \/ list_entry(cur) \notin DOMAIN P THEN <<>>
  ELSE <<list_entry(cur)>> \o ListFromBackward(P, P[list_entry(cur)].prev, head, n - 1)

PageList(P, head_page) ==
  IF head_page \notin DOMAIN P THEN <<>>
  ELSE <<head_page>> \o
       ListFrom(P, P[head_page].next, ListOf(head_page), Cardinality(DOMAIN P))

Range(s) == {s[i] : i \in 1..Len(s)}

\* The bytes of a header unlinked from the list become payload of the page
\* that absorbed it; the model stops tracking them.
Linked(P, head_page) == [a \in Range(PageList(P, head_page)) |-> P[a]]

----------------------------------------------------------------------------
(* Page layer, fmem.c lines 25-140.  flags is kept as its two 16-bit       *)
(* halves: hi = flags >> 16, lo = flags & 0xFFFF.                          *)

ZeroPage == [flags |-> [hi |-> 0, lo |-> 0], size |-> 0, next |-> NULL, prev |-> NULL]

fpage_actual(P, fpage) == P[fpage].size - PAGE_OVERHEAD

\* variant: a page whose payload is exactly the size needed is passed over
fpage_can_fit_strict(P, fpage, size_needed) ==
  LET actual == fpage_actual(P, fpage)
  IN  IF size_needed >= actual THEN CAN_NOT_FIT
      ELSE IF size_needed + PAGE_REMAIN_FREE >= actual THEN FIT_AS_IS
      ELSE FIT_WITH_CARVE

\* variant: the size needed is compared with the page size, header included
fpage_can_fit_loose(P, fpage, size_needed) ==
  LET actual == P[fpage].size
  IN  IF size_needed > actual THEN CAN_NOT_FIT
      ELSE IF size_needed + PAGE_REMAIN_FREE >= actual THEN FIT_AS_IS
      ELSE FIT_WITH_CARVE

fpage_can_fit(P, fpage, size_needed) ==
  LET actual == fpage_actual(P, fpage)
  IN  IF size_needed > actual THEN CAN_NOT_FIT
      ELSE IF size_needed + PAGE_REMAIN_FREE >= actual THEN FIT_AS_IS
      ELSE FIT_WITH_CARVE

\* variant: the created page is given the payload size, without its header
fpage_carve_short(P, fpage, to_carve) ==
  LET actual_needed == to_carve + PAGE_OVERHEAD
      P1 == [P EXCEPT ![fpage].size = P[fpage].size - actual_needed]
      created == fpage + P1[fpage].size
      P2 == (created :> ZeroPage) @@ P1
      P3 == [P2 EXCEPT ![created].size = to_carve]
  IN  [P |-> list_add_after(P3, ListOf(fpage), ListOf(created)), created |-> created]

\* variant: the created page is placed after the bytes carved, not after
\* the bytes kept
fpage_carve_misplaced(P, fpage, to_carve) ==
  LET actual_needed == to_carve + PAGE_OVERHEAD
      P1 == [P EXCEPT ![fpage].size = P[fpage].size - actual_needed]
      created == fpage + actual_needed
      P2 == (created :> ZeroPage) @@ P1
      P3 == [P2 EXCEPT ![created].size = actual_needed]
  IN  [P |-> list_add_after(P3, ListOf(fpage), ListOf(created)), created |-> created]

\* returns the headers after the carve and *created
fpage_carve(P, fpage, to_carve) ==
  LET actual_needed == to_carve + PAGE_OVERHEAD
      P1 == [P EXCEPT ![fpage].size = P[fpage].size - actual_needed]
      created == fpage + P1[fpage].size
      P2 == (created :> ZeroPage) @@ P1
      P3 == [P2 EXCEPT ![created].size = actual_needed]
  IN  [P |-> list_add_after(P3, ListOf(fpage), ListOf(created)), created |-> created]

\* variant: the magic is stored over the whole word, the low half cleared
fpage_set_magic_clearing(P, fpage, magic) ==
  [P EXCEPT ![fpage].flags = [hi |-> magic, lo |-> 0]]

fpage_set_magic(P, fpage, magic) ==
  [P EXCEPT ![fpage].flags = [hi |-> magic, lo |-> @.lo]]

fpage_get_magic(P, fpage) == P[fpage].flags.hi

fpage_is_free(P, fpage) == (P[fpage].flags.lo \div BusyBit) % 2 = 0

fpage_set_busy(P, fpage) ==
  [P EXCEPT ![fpage].flags.lo = IF (@ \div BusyBit) % 2 = 1 THEN @ ELSE @ + BusyBit]

fpage_set_free(P, fpage) ==
  [P EXCEPT ![fpage].flags.lo = IF (@ \div BusyBit) % 2 = 1 THEN @ - BusyBit ELSE @]

\* variant: the merge of three pages leaves out the size of the next page
fpage_merge_lost(P, fpage) ==
  LET prev == list_entry(P[fpage].prev)
      next == list_entry(P[fpage].next)
      prev_is_same == (prev = fpage)
      next_is_same == (next = fpage)
  IN  IF (~prev_is_same /\ fpage_is_free(P, prev)) /\ (~next_is_same /\ fpage_is_free(P, next))
      THEN LET P1 == [P EXCEPT ![prev].size = P[prev].size + P[fpage].size]
               P2 == list_remove_at(P1, ListOf(next))
           IN  [P |-> list_remove_at(P2, ListOf(fpage)), ret |-> prev]
      ELSE IF ~prev_is_same /\ fpage_is_free(P, prev)
      THEN LET P1 == [P EXCEPT ![prev].size = P[prev].size + P[fpage].size]
           IN  [P |-> list_remove_at(P1, ListOf(fpage)), ret |-> prev]
      ELSE IF ~next_is_same /\ fpage_is_free(P, next)
      THEN LET P1 == [P EXCEPT ![fpage].size = P[fpage].size + P[next].size]
           IN  [P |-> list_remove_at(P1, ListOf(next)), ret |-> fpage]
      ELSE [P |-> P, ret |-> fpage]

\* variant: a page is merged into a free predecessor only
fpage_merge_prev_only(P, fpage) ==
  LET prev == list_entry(P[fpage].prev)
      prev_is_same == (prev = fpage)
  IN  IF ~prev_is_same /\ fpage_is_free(P, prev)
      THEN LET P1 == [P EXCEPT ![prev].size = P[prev].size + P[fpage].size]
           IN  [P |-> list_remove_at(P1, ListOf(fpage)), ret |-> prev]
      ELSE [P |-> P, ret |-> fpage]

\* variant: a page is merged into the page before it, free or busy
fpage_merge_any_prev(P, fpage) ==
  LET prev == list_entry(P[fpage].prev)
      next == list_entry(P[fpage].next)
      prev_is_same == (prev = fpage)
      next_is_same == (next = fpage)
  IN  IF ~prev_is_same /\ (~next_is_same /\ fpage_is_free(P, next))
      THEN LET P1 == [P EXCEPT ![prev].size = P[prev].size + P[fpage].size + P[next].size]
               P2 == list_remove_at(P1, ListOf(next))
           IN  [P |-> list_remove_at(P2, ListOf(fpage)), ret |-> prev]
      ELSE IF ~prev_is_same
      THEN LET P1 == [P EXCEPT ![prev].size = P[prev].size + P[fpage].size]
           IN  [P |-> list_remove_at(P1, ListOf(fpage)), ret |-> prev]
      ELSE [P |-> P, ret |-> fpage]

\* variant: no merge of three pages; with both neighbours free the page is
\* merged into the previous one and the next one is left alone
fpage_merge_pairwise(P, fpage) ==
  LET prev == list_entry(P[fpage].prev)
      next == list_entry(P[fpage].next)
      prev_is_same == (prev = fpage)
      next_is_same == (next = fpage)
  IN  IF ~prev_is_same /\ fpage_is_free(P, prev)
      THEN LET P1 == [P EXCEPT ![prev].size = P[prev].size + P[fpage].size]
           IN  [P |-> list_remove_at(P1, ListOf(fpage)), ret |-> prev]
      ELSE IF ~next_is_same /\ fpage_is_free(P, next)
      THEN LET P1 == [P EXCEPT ![fpage].size = P[fpage].size + P[next].size]
           IN  [P |-> list_remove_at(P1, ListOf(next)), ret |-> fpage]
      ELSE [P |-> P, ret |-> fpage]

\* returns the headers after the merge and the surviving page
fpage_merge(P, fpage) ==
  LET prev == list_entry(P[fpage].prev)
      next == list_entry(P[fpage].next)
      prev_is_same == (prev = fpage)
      next_is_same == (next = fpage)
  IN  IF (~prev_is_same /\ fpage_is_free(P, prev)) /\ (~next_is_same /\ fpage_is_free(P, next))
      THEN LET P1 == [P EXCEPT ![prev].size = P[prev].size + P[fpage].size + P[next].size]
               P2 == list_remove_at(P1, ListOf(next))
           IN  [P |-> list_remove_at(P2, ListOf(fpage)), ret |-> prev]
      ELSE IF ~prev_is_same /\ fpage_is_free(P, prev)
      THEN LET P1 == [P EXCEPT ![prev].size = P[prev].size + P[fpage].size]
           IN  [P |-> list_remove_at(P1, ListOf(fpage)), ret |-> prev]
      ELSE IF ~next_is_same /\ fpage_is_free(P, next)
      THEN LET P1 == [P EXCEPT ![fpage].size = P[fpage].size + P[next].size]
           IN  [P |-> list_remove_at(P1, ListOf(next)), ret |-> fpage]
      ELSE [P |-> P, ret |-> fpage]

mem_from_fpage(fpage) == fpage + PAGE_OVERHEAD
fpage_from_mem(mem)   == mem - PAGE_OVERHEAD

fail_on_poison_check(poison, expected) ==
  IF poison # expected THEN EE_BAD_MEM ELSE 0

----------------------------------------------------------------------------
(* The committer and the persisted image.  The image holds what the        *)
(* committer copied: a field of a header or of the accounting block is     *)
(* copied when the range covers all its bytes.  m is the machine state     *)
(* [pg, fm, disk, diskFm].                                                 *)

Covers(r, addr, len) == r.start <= addr /\ addr + len <= r.start + r.len

DiskAt(D, a) == IF a \in DOMAIN D THEN D[a] ELSE ZeroPage

CopyPage(old, new, r, a) ==
  [flags |-> IF Covers(r, a, 4) THEN new.flags ELSE old.flags,
   size  |-> IF Covers(r, a + 4, 4) THEN new.size ELSE old.size,
   next  |-> IF Covers(r, a + OffsetofList, SizeofPtr) THEN new.next ELSE old.next,
   prev  |-> IF Covers(r, a + OffsetofList + SizeofPtr, SizeofPtr) THEN new.prev ELSE old.prev]

Touched(P, r) ==
  {a \in DOMAIN P : \/ Covers(r, a, 4)
                    \/ Covers(r, a + 4, 4)
                    \/ Covers(r, a + OffsetofList, SizeofPtr)
                    \/ Covers(r, a + OffsetofList + SizeofPtr, SizeofPtr)}

CopyFm(old, new, r, f) ==
  [total_size      |-> IF Covers(r, f, 8) THEN new.total_size ELSE old.total_size,
   total_available |-> IF Covers(r, f + 8, 8) THEN new.total_available ELSE old.total_available,
   alloc_objects   |-> IF Covers(r, f + 16, 4) THEN new.alloc_objects ELSE old.alloc_objects,
   min_alloc       |-> IF Covers(r, f + 20, 4) THEN new.min_alloc ELSE old.min_alloc,
   user1           |-> IF Covers(r, f + 24, 8) THEN new.user1 ELSE old.user1,
   user2           |-> IF Covers(r, f + 32, 8) THEN new.user2 ELSE old.user2,
   user3           |-> IF Covers(r, f + 40, 8) THEN new.user3 ELSE old.user3,
   user4           |-> IF Covers(r, f + 48, 8) THEN new.user4 ELSE old.user4,
   committer       |-> IF Covers(r, f + 56, 8) THEN new.committer ELSE old.committer,
   lock            |-> IF Covers(r, f + 64, 4) THEN new.lock ELSE old.lock]

CopyRange(m, r) ==
  [m EXCEPT !.disk = [a \in DOMAIN m.disk \cup Touched(m.pg, r) |->
                        IF a \in DOMAIN m.pg
                        THEN CopyPage(DiskAt(m.disk, a), m.pg[a], r, a)
                        ELSE m.disk[a]],
            !.diskFm = CopyFm(m.diskFm, m.fm, r, mem_from_fpage(RegionBase))]

RECURSIVE CopyRanges(_, _, _)
CopyRanges(m, ranges, count) ==
  IF count = 0 THEN m
  ELSE CopyRange(CopyRanges(m, ranges, count - 1), ranges[count])

\* committer(ranges, count): the machine state after the call and its result
committer_call(c, m, ranges, count) ==
  IF c = CopyCommitter
  THEN [m |-> CopyRanges(m, ranges, count), res |-> 0,
        call |-> [committer |-> c, ranges |-> ranges, count |-> count, res |-> 0]]
  ELSE IF c = TheCommitter
  THEN LET res == IF count = 1 THEN ranges[1].len ELSE 1
       IN  [m |-> CopyRanges(m, ranges, count), res |-> res,
            call |-> [committer |-> c, ranges |-> ranges, count |-> count, res |-> res]]
  ELSE [m |-> m, res |-> -1,
        call |-> [committer |-> c, ranges |-> ranges, count |-> count, res |-> -1]]

commit_range(start, len) == [start |-> start, len |-> len]

\* m with the unlinked headers dropped, in the region and in the image
Tracked(m, head_page) ==
  LET P == Linked(m.pg, head_page)
  IN  [m EXCEPT !.pg = P,
                !.disk = [a \in DOMAIN m.disk \cap DOMAIN P |-> m.disk[a]]]

----------------------------------------------------------------------------
(* The allocator, fmem.c lines 143-395.                                    *)

\* variant: the swap is done whatever the word holds
atomic_compare_swap_blind(F, compare, exchange) ==
  [F |-> [F EXCEPT !.lock = exchange], ok |-> TRUE]

atomic_compare_swap(F, compare, exchange) ==
  IF F.lock = compare THEN [F |-> [F EXCEPT !.lock = exchange], ok |-> TRUE]
  ELSE [F |-> F, ok |-> FALSE]

\* variant: the lock word is left set
fmem_unlock_never(F) == F

fmem_unlock(F) == [F EXCEPT !.lock = 0]

\* total_available is a size_t: a negative value here stands for the wrapped
\* value 2^64 + a, which is above every uint32_t.
SizeTLess(a, b) == IF a < 0 THEN FALSE ELSE a < b

\* variant: the length is compared with min_alloc first
create_reject_swapped(len, min_alloc) ==
  IF len < min_alloc + (2 * PAGE_OVERHEAD) + SizeofFmem THEN E_BAD_INIT_MEM
  ELSE IF len < MIN_TOTAL_ALLOCATION THEN E_TOTAL_ALLOCATION_SIZE_TOO_SMALL
  ELSE 0

\* fmem_create_new lines 183-184: the error returned for the arguments, or 0
create_reject(len, min_alloc) ==
  IF len < MIN_TOTAL_ALLOCATION THEN E_TOTAL_ALLOCATION_SIZE_TOO_SMALL
  ELSE IF len < min_alloc + (2 * PAGE_OVERHEAD) + SizeofFmem THEN E_BAD_INIT_MEM
  ELSE 0

\* variant: min_alloc is taken as given
create_min_alloc_asis(min_alloc) == min_alloc

\* fmem_create_new line 185
create_min_alloc(min_alloc) ==
  IF min_alloc < DEFAULT_MIN_ALLOC THEN DEFAULT_MIN_ALLOC ELSE min_alloc

\* variant: the range stops before the header of the main page
create_commit_range_short(on_mem) ==
  commit_range(on_mem, PAGE_OVERHEAD + SizeofFmem)

\* fmem_create_new lines 223-225
create_commit_range(on_mem) ==
  commit_range(on_mem, PAGE_OVERHEAD + SizeofFmem + PAGE_OVERHEAD)

fmem_create_new(m, on_mem, len, min_alloc, committer) ==
  IF create_reject(len, min_alloc) # 0
  THEN [m |-> m, ret |-> create_reject(len, min_alloc), calls |-> <<>>]
  ELSE
    LET min_alloc2 == create_min_alloc(min_alloc)
        fpage_head == on_mem
        P1 == [m.pg EXCEPT ![fpage_head].size = PAGE_OVERHEAD + SizeofFmem]
        P2 == list_head_init(P1, ListOf(fpage_head))
        fmp == mem_from_fpage(fpage_head)
        F1 == [m.fm EXCEPT !.total_size = len,
                           !.total_available = len - ((2 * PAGE_OVERHEAD) + SizeofFmem),
                           !.min_alloc = min_alloc2,
                           !.alloc_objects = 0]
        F2 == IF committer # NULL THEN [F1 EXCEPT !.committer = committer] ELSE F1
        F3 == fmem_unlock(F2)
        main_fpage == fpage_head + P2[fpage_head].size
        P3 == [P2 EXCEPT ![main_fpage].size = len - P2[fpage_head].size]
        P4 == list_add_after(P3, ListOf(fpage_head), ListOf(main_fpage))
        P5 == fpage_set_busy(P4, fpage_head)
        P6 == fpage_set_free(P5, main_fpage)
        P7 == fpage_set_magic(P6, fpage_head, POISON)
        P8 == fpage_set_magic(P7, main_fpage, POISON)
        m1 == [m EXCEPT !.pg = P8, !.fm = F3]
    IN  IF F3.committer # NULL
        THEN LET r == create_commit_range(on_mem)
                 c == committer_call(F3.committer, m1, <<r>>, 1)
             IN  [m |-> c.m, ret |-> IF c.res < 0 THEN E_COMMIT_FAILED ELSE fmp,
                  calls |-> <<c.call>>]
        ELSE [m |-> m1, ret |-> fmp, calls |-> <<>>]

\* fmem_alloc line 260
adjusted_alloc_of(F, size) == IF size < F.min_alloc THEN F.min_alloc ELSE size

\* variant: the magic is looked at after the busy pages are passed over
RECURSIVE alloc_each_free_only(_, _, _, _)
alloc_each_free_only(P, current, head, adjusted_alloc) ==
  IF current = head
  THEN [P |-> P, selected |-> NULL, carved |-> FALSE, ret |-> NULL]
  ELSE
    LET this_page == list_entry(current)
        check == fail_on_poison_check(fpage_get_magic(P, this_page), POISON)
    IN  IF ~fpage_is_free(P, this_page)
        THEN alloc_each_free_only(P, P[this_page].next, head, adjusted_alloc)
        ELSE IF check # 0
        THEN [P |-> P, selected |-> NULL, carved |-> FALSE, ret |-> check]
        ELSE
          LET fit_status == fpage_can_fit(P, this_page, adjusted_alloc)
          IN  IF fit_status = CAN_NOT_FIT
              THEN alloc_each_free_only(P, P[this_page].next, head, adjusted_alloc)
              ELSE IF fit_status = FIT_AS_IS
              THEN [P |-> P, selected |-> this_page, carved |-> FALSE, ret |-> NULL]
              ELSE LET c == fpage_carve(P, this_page, adjusted_alloc)
                   IN  [P |-> c.P, selected |-> c.created, carved |-> TRUE, ret |-> NULL]

\* fmem_alloc lines 278-302: the walk from current; selected, carved and ret
RECURSIVE alloc_each(_, _, _, _)
alloc_each(P, current, head, adjusted_alloc) ==
  IF current = head
  THEN [P |-> P, selected |-> NULL, carved |-> FALSE, ret |-> NULL]
  ELSE
    LET this_page == list_entry(current)
        check == fail_on_poison_check(fpage_get_magic(P, this_page), POISON)
    IN  IF check # 0
        THEN [P |-> P, selected |-> NULL, carved |-> FALSE, ret |-> check]
        ELSE IF ~fpage_is_free(P, this_page)
        THEN alloc_each(P, P[this_page].next, head, adjusted_alloc)
        ELSE
          LET fit_status == fpage_can_fit(P, this_page, adjusted_alloc)
          IN  IF fit_status = CAN_NOT_FIT
              THEN alloc_each(P, P[this_page].next, head, adjusted_alloc)
              ELSE IF fit_status = FIT_AS_IS
              THEN [P |-> P, selected |-> this_page, carved |-> FALSE, ret |-> NULL]
              ELSE LET c == fpage_carve(P, this_page, adjusted_alloc)
                   IN  [P |-> c.P, selected |-> c.created, carved |-> TRUE, ret |-> NULL]

\* variant: the list is walked from its last page towards the head
RECURSIVE alloc_each_backward(_, _, _, _)
alloc_each_backward(P, current, head, adjusted_alloc) ==
  IF current = head
  THEN [P |-> P, selected |-> NULL, carved |-> FALSE, ret |-> NULL]
  ELSE
    LET this_page == list_entry(current)
        check == fail_on_poison_check(fpage_get_magic(P, this_page), POISON)
    IN  IF check # 0
        THEN [P |-> P, selected |-> NULL, carved |-> FALSE, ret |-> check]
        ELSE IF ~fpage_is_free(P, this_page)
        THEN alloc_each_backward(P, P[this_page].prev, head, adjusted_alloc)
        ELSE
          LET fit_status == fpage_can_fit(P, this_page, adjusted_alloc)
          IN  IF fit_status = CAN_NOT_FIT
              THEN alloc_each_backward(P, P[this_page].prev, head, adjusted_alloc)
              ELSE IF fit_status = FIT_AS_IS
              THEN [P |-> P, selected |-> this_page, carved |-> FALSE, ret |-> NULL]
              ELSE LET c == fpage_carve(P, this_page, adjusted_alloc)
                   IN  [P |-> c.P, selected |-> c.created, carved |-> TRUE, ret |-> NULL]

alloc_walk_backward(P, F, fmp, adjusted_alloc) ==
  IF SizeTLess(F.total_available, adjusted_alloc)
  THEN [P |-> P, selected |-> NULL, carved |-> FALSE, ret |-> NULL]
  ELSE LET head_page == fpage_from_mem(fmp)
           head == ListOf(head_page)
       IN  alloc_each_backward(P, P[head_page].prev, head, adjusted_alloc)

\* fmem_alloc lines 263-302, run with the lock held
alloc_walk(P, F, fmp, adjusted_alloc) ==
  IF SizeTLess(F.total_available, adjusted_alloc)
  THEN [P |-> P, selected |-> NULL, carved |-> FALSE, ret |-> NULL]
  ELSE LET head_page == fpage_from_mem(fmp)
           head == ListOf(head_page)
       IN  alloc_each(P, P[head_page].next, head, adjusted_alloc)

\* the ranges fmem_alloc builds on the carve path, lines 322-332
alloc_carve_ranges(P, selected) ==
  <<commit_range(selected, SizeofFmemPage),
    commit_range(list_entry(P[selected].prev), SizeofFmemPage),
    commit_range(P[selected].next, SizeofListHead)>>

\* the count fmem_alloc passes with them, line 333
alloc_carve_count == 1

\* variant: the allocation is not counted
alloc_account_uncounted(F, size) ==
  [F EXCEPT !.total_available = @ - size]

\* variant: the payload is taken off, without the header
alloc_account_payload(F, size) ==
  [F EXCEPT !.total_available = @ - (size - PAGE_OVERHEAD), !.alloc_objects = @ + 1]

\* the accounting of fmem_alloc, lines 312-313
alloc_account(F, size) ==
  [F EXCEPT !.total_available = @ - size, !.alloc_objects = @ + 1]

\* variant: the payload is given back, without the header
free_account_payload(F, to_free) ==
  [F EXCEPT !.alloc_objects = @ - 1, !.total_available = @ + (to_free - PAGE_OVERHEAD)]

\* the accounting of fmem_free, lines 364-365
free_account(F, to_free) ==
  [F EXCEPT !.alloc_objects = @ - 1, !.total_available = @ + to_free]

\* variant: a committer result of 0 is taken for a failure
alloc_done_positive(m, w) ==
  IF w.selected # NULL
  THEN
    LET P1 == fpage_set_busy(w.P, w.selected)
        P2 == fpage_set_magic(P1, w.selected, POISON)
        F1 == alloc_account(m.fm, P2[w.selected].size)
        ret == mem_from_fpage(w.selected)
        m1 == [m EXCEPT !.pg = P2, !.fm = F1]
    IN  IF F1.committer # NULL
        THEN LET c == IF w.carved
                      THEN committer_call(F1.committer, m1,
                                          alloc_carve_ranges(P2, w.selected), alloc_carve_count)
                      ELSE committer_call(F1.committer, m1,
                                          <<commit_range(w.selected, SizeofFmemPage)>>, 1)
             IN  [m |-> c.m, ret |-> IF c.res <= 0 THEN E_COMMIT_FAILED ELSE ret,
                  calls |-> <<c.call>>]
        ELSE [m |-> m1, ret |-> ret, calls |-> <<>>]
  ELSE [m |-> [m EXCEPT !.pg = w.P],
        ret |-> IF w.ret = NULL THEN FMEM_E_NOMEM ELSE w.ret, calls |-> <<>>]

\* fmem_alloc lines 304-342 and the return value of line 345
\* variant: an alloc that selected no page still counts an object
alloc_done_counted(m, w) ==
  IF w.selected # NULL
  THEN
    LET P1 == fpage_set_busy(w.P, w.selected)
        P2 == fpage_set_magic(P1, w.selected, POISON)
        F1 == alloc_account(m.fm, P2[w.selected].size)
        ret == mem_from_fpage(w.selected)
        m1 == [m EXCEPT !.pg = P2, !.fm = F1]
    IN  IF F1.committer # NULL
        THEN LET c == IF w.carved
                      THEN committer_call(F1.committer, m1,
                                          alloc_carve_ranges(P2, w.selected), alloc_carve_count)
                      ELSE committer_call(F1.committer, m1,
                                          <<commit_range(w.selected, SizeofFmemPage)>>, 1)
             IN  [m |-> c.m, ret |-> IF c.res < 0 THEN E_COMMIT_FAILED ELSE ret,
                  calls |-> <<c.call>>]
        ELSE [m |-> m1, ret |-> ret, calls |-> <<>>]
  ELSE [m |-> [m EXCEPT !.pg = w.P, !.fm.alloc_objects = @ + 1],
        ret |-> IF w.ret = NULL THEN FMEM_E_NOMEM ELSE w.ret, calls |-> <<>>]

\* variant: the selected page is not stamped with the magic
alloc_done_unstamped(m, w) ==
  IF w.selected # NULL
  THEN
    LET P1 == fpage_set_busy(w.P, w.selected)
        P2 == P1
        F1 == alloc_account(m.fm, P2[w.selected].size)
        ret == mem_from_fpage(w.selected)
        m1 == [m EXCEPT !.pg = P2, !.fm = F1]
    IN  IF F1.committer # NULL
        THEN LET c == IF w.carved
                      THEN committer_call(F1.committer, m1,
                                          alloc_carve_ranges(P2, w.selected), alloc_carve_count)
                      ELSE committer_call(F1.committer, m1,
                                          <<commit_range(w.selected, SizeofFmemPage)>>, 1)
             IN  [m |-> c.m, ret |-> IF c.res < 0 THEN E_COMMIT_FAILED ELSE ret,
                  calls |-> <<c.call>>]
        ELSE [m |-> m1, ret |-> ret, calls |-> <<>>]
  ELSE [m |-> [m EXCEPT !.pg = w.P],
        ret |-> IF w.ret = NULL THEN FMEM_E_NOMEM ELSE w.ret, calls |-> <<>>]

alloc_done(m, w) ==
  IF w.selected # NULL
  THEN
    LET P1 == fpage_set_busy(w.P, w.selected)
        P2 == fpage_set_magic(P1, w.selected, POISON)
        F1 == alloc_account(m.fm, P2[w.selected].size)
        ret == mem_from_fpage(w.selected)
        m1 == [m EXCEPT !.pg = P2, !.fm = F1]
    IN  IF F1.committer # NULL
        THEN LET c == IF w.carved
                      THEN committer_call(F1.committer, m1,
                                          alloc_carve_ranges(P2, w.selected), alloc_carve_count)
                      ELSE committer_call(F1.committer, m1,
                                          <<commit_range(w.selected, SizeofFmemPage)>>, 1)
             IN  [m |-> c.m, ret |-> IF c.res < 0 THEN E_COMMIT_FAILED ELSE ret,
                  calls |-> <<c.call>>]
        ELSE [m |-> m1, ret |-> ret, calls |-> <<>>]
  ELSE [m |-> [m EXCEPT !.pg = w.P],
        ret |-> IF w.ret = NULL THEN FMEM_E_NOMEM ELSE w.ret, calls |-> <<>>]

\* variant: to_free is read after the merge, from the surviving page
free_merge_after(P, fpage) ==
  LET P1 == fpage_set_free(P, fpage)
      g == fpage_merge(P1, fpage)
  IN  [P |-> g.P, to_free |-> g.P[g.ret].size, modified |-> g.ret]

\* fmem_free lines 360-362: to_free, the headers after the merge, modified
free_merge(P, fpage) ==
  LET to_free == P[fpage].size
      P1 == fpage_set_free(P, fpage)
      g == fpage_merge(P1, fpage)
  IN  [P |-> g.P, to_free |-> to_free, modified |-> g.ret]

\* variant: the first range is the header of the page freed, merged or not
free_ranges_self(P, fpage, modified) ==
  <<commit_range(fpage, SizeofFmemPage),
    commit_range(P[fpage].prev, SizeofListHead),
    commit_range(P[fpage].next, SizeofListHead)>>

\* the ranges fmem_free builds, lines 373-386
free_ranges(P, fpage, modified) ==
  <<commit_range(modified, SizeofFmemPage),
    commit_range(P[fpage].prev, SizeofListHead),
    commit_range(P[fpage].next, SizeofListHead)>>

\* fmem_free lines 364-391 and the return value
free_done(m, fpage, g) ==
  LET F1 == free_account(m.fm, g.to_free)
      m1 == [m EXCEPT !.pg = g.P, !.fm = F1]
  IN  IF F1.committer # NULL
      THEN LET c == committer_call(F1.committer, m1, free_ranges(g.P, fpage, g.modified), 3)
           IN  [m |-> c.m, ret |-> IF c.res < 0 THEN E_COMMIT_FAILED ELSE g.to_free,
                calls |-> <<c.call>>]
      ELSE [m |-> m1, ret |-> g.to_free, calls |-> <<>>]

\* a whole fmem_alloc, lock to unlock
fmem_alloc(m, fmp, size) ==
  LET adjusted_alloc == adjusted_alloc_of(m.fm, size)
      w == alloc_walk(m.pg, m.fm, fmp, adjusted_alloc)
      d == alloc_done(m, w)
  IN  [m |-> [d.m EXCEPT !.fm = fmem_unlock(@)], ret |-> d.ret, calls |-> d.calls,
       carved |-> w.carved, selected |-> w.selected]

\* a whole fmem_free, poison check to unlock
fmem_free(m, fmp, mem) ==
  LET fpage == fpage_from_mem(mem)
      check == fail_on_poison_check(fpage_get_magic(m.pg, fpage), POISON)
  IN  IF check # 0
      THEN [m |-> m, ret |-> check, calls |-> <<>>, modified |-> NULL]
      ELSE LET g == free_merge(m.pg, fpage)
               d == free_done(m, fpage, g)
           IN  [m |-> [d.m EXCEPT !.fm = fmem_unlock(@)],
                ret |-> d.ret, calls |-> d.calls, modified |-> g.modified]

\* variant: the lock word is left as it was found
fmem_from_existing_keep_lock(m, on_mem, committer) ==
  LET fpage_head == on_mem
      check == fail_on_poison_check(fpage_get_magic(m.pg, fpage_head), POISON)
  IN  IF check # 0
      THEN [m |-> m, ret |-> check, calls |-> <<>>]
      ELSE LET F1 == IF committer # NULL THEN [m.fm EXCEPT !.committer = committer]
                     ELSE m.fm
           IN  [m |-> [m EXCEPT !.fm = F1],
                ret |-> mem_from_fpage(fpage_head), calls |-> <<>>]

\* variant: the user slots are cleared as on creation
fmem_from_existing_fresh(m, on_mem, committer) ==
  LET fpage_head == on_mem
      check == fail_on_poison_check(fpage_get_magic(m.pg, fpage_head), POISON)
  IN  IF check # 0
      THEN [m |-> m, ret |-> check, calls |-> <<>>]
      ELSE LET F1 == IF committer # NULL THEN [m.fm EXCEPT !.committer = committer]
                     ELSE m.fm
               F2 == [F1 EXCEPT !.user1 = NULL, !.user2 = NULL,
                                !.user3 = NULL, !.user4 = NULL]
           IN  [m |-> [m EXCEPT !.fm = fmem_unlock(F2)],
                ret |-> mem_from_fpage(fpage_head), calls |-> <<>>]

\* fmem_from_existing, lines 233-254
fmem_from_existing(m, on_mem, committer) ==
  LET fpage_head == on_mem
      check == fail_on_poison_check(fpage_get_magic(m.pg, fpage_head), POISON)
  IN  IF check # 0
      THEN [m |-> m, ret |-> check, calls |-> <<>>]
      ELSE LET F1 == IF committer # NULL THEN [m.fm EXCEPT !.committer = committer]
                     ELSE m.fm
           IN  [m |-> [m EXCEPT !.fm = fmem_unlock(F1)],
                ret |-> mem_from_fpage(fpage_head), calls |-> <<>>]

\* offsetof(struct fmem, user1)
OffsetofUser1 == 2 * SizeofPtr + 2 * 4

\* variant: the range leaves out the last user slot
fmem_commit_user_data_three(m, fmp) ==
  IF m.fm.committer = NULL
  THEN [m |-> m, ret |-> E_COMMIT_FAILED, calls |-> <<>>]
  ELSE
    LET fhead_page == fpage_from_mem(fmp)
        check == fail_on_poison_check(fpage_get_magic(m.pg, fhead_page), POISON)
    IN  IF check # 0
        THEN [m |-> m, ret |-> check, calls |-> <<>>]
        ELSE LET r == commit_range(fmp + OffsetofUser1, 3 * SizeofPtr)
                 c == committer_call(m.fm.committer, m, <<r>>, 1)
             IN  [m |-> c.m, ret |-> IF c.res < 0 THEN E_COMMIT_FAILED ELSE r.len,
                  calls |-> <<c.call>>]

\* fmem_commit_user_data, lines 397-412
fmem_commit_user_data(m, fmp) ==
  IF m.fm.committer = NULL
  THEN [m |-> m, ret |-> E_COMMIT_FAILED, calls |-> <<>>]
  ELSE
    LET fhead_page == fpage_from_mem(fmp)
        check == fail_on_poison_check(fpage_get_magic(m.pg, fhead_page), POISON)
    IN  IF check # 0
        THEN [m |-> m, ret |-> check, calls |-> <<>>]
        ELSE LET r == commit_range(fmp + OffsetofUser1, 4 * SizeofPtr)
                 c == committer_call(m.fm.committer, m, <<r>>, 1)
             IN  [m |-> c.m, ret |-> IF c.res < 0 THEN E_COMMIT_FAILED ELSE r.len,
                  calls |-> <<c.call>>]

\* variant: a length of 0 is passed on as it is
fmem_commit_mem_zero(m, fmp, mem, len) ==
  IF m.fm.committer = NULL
  THEN [m |-> m, ret |-> E_COMMIT_FAILED, calls |-> <<>>]
  ELSE
    LET fpage == fpage_from_mem(mem)
        check == fail_on_poison_check(fpage_get_magic(m.pg, fpage), POISON)
    IN  IF check # 0
        THEN [m |-> m, ret |-> check, calls |-> <<>>]
        ELSE
          LET page_size == fpage_actual(m.pg, fpage)
          IN  IF mem + len > fpage + PAGE_OVERHEAD + page_size
              THEN [m |-> m, ret |-> E_COMMIT_FAILED, calls |-> <<>>]
              ELSE LET c == committer_call(m.fm.committer, m, <<commit_range(mem, len)>>, 1)
                   IN  [m |-> c.m, ret |-> IF c.res < 0 THEN E_COMMIT_FAILED ELSE len,
                        calls |-> <<c.call>>]

\* fmem_commit_mem, lines 414-438
fmem_commit_mem(m, fmp, mem, len) ==
  IF m.fm.committer = NULL
  THEN [m |-> m, ret |-> E_COMMIT_FAILED, calls |-> <<>>]
  ELSE
    LET fpage == fpage_from_mem(mem)
        check == fail_on_poison_check(fpage_get_magic(m.pg, fpage), POISON)
    IN  IF check # 0
        THEN [m |-> m, ret |-> check, calls |-> <<>>]
        ELSE
          LET page_size == fpage_actual(m.pg, fpage)
              len2 == IF len = 0 THEN page_size ELSE len
          IN  IF mem + len2 > fpage + PAGE_OVERHEAD + page_size
              THEN [m |-> m, ret |-> E_COMMIT_FAILED, calls |-> <<>>]
              ELSE LET c == committer_call(m.fm.committer, m, <<commit_range(mem, len2)>>, 1)
                   IN  [m |-> c.m, ret |-> IF c.res < 0 THEN E_COMMIT_FAILED ELSE len2,
                        calls |-> <<c.call>>]

----------------------------------------------------------------------------
(* The state machine of one client calling the allocator.                  *)

HeadPage == RegionBase
MainPage == RegionBase + PAGE_OVERHEAD + SizeofFmem

\* what the region bytes may hold before fmem_create_new writes them: a
\* zero-filled buffer, or what earlier use left there (reserved flag bits
\* set, a committer installed, the lock held by a holder that crashed)
RawRegions ==
  {[flags |-> [hi |-> 0, lo |-> 0], committer |-> NULL, lock |-> 0],
   [flags |-> [hi |-> 65535, lo |-> 65535], committer |-> CopyCommitter, lock |-> 1],
   [flags |-> [hi |-> 0, lo |-> 0], committer |-> FailCommitter, lock |-> 1]}

ZeroFm == [total_size |-> 0, total_available |-> 0, alloc_objects |-> 0,
           min_alloc |-> 0, user1 |-> NULL, user2 |-> NULL, user3 |-> NULL,
           user4 |-> NULL, committer |-> NULL, lock |-> 0]

NoLocals == [op |-> "none", arg |-> 0, adjusted_alloc |-> 0, selected |-> NULL,
             carved |-> FALSE, wret |-> NULL, to_free |-> 0, modified |-> NULL,
             ret |-> 0, expect |-> 0]

\* the lowest free page of the list whose payload holds need bytes, or NULL
FirstFit(P, need) ==
  LET fits == {a \in DOMAIN P \ {HeadPage} :
                 fpage_is_free(P, a) /\ P[a].size - PAGE_OVERHEAD >= need}
  IN  IF fits = {} THEN NULL ELSE CHOOSE a \in fits : \A b \in fits : a <= b

\* the last completed call: its operation, argument and result, whether it
\* carved, the page it selected (alloc) or that survived the merge (free),
\* and of the state it started in: the number of pages in the list and the
\* first page that fitted the request (alloc)
NoCall == [op |-> "none", arg |-> 0, arg2 |-> 0, arg3 |-> 0, ret |-> 0, carved |-> FALSE,
           page |-> NULL, npages |-> 0, first_fit |-> NULL]

Machine == [pg |-> pg, fm |-> fm, disk |-> disk, diskFm |-> diskFm]

Idle == \A t \in Threads : pc[t] = "idle"

Init ==
  /\ \E raw \in RawRegions :
       /\ pg = [a \in {HeadPage, MainPage} |-> [ZeroPage EXCEPT !.flags = raw.flags]]
       /\ fm = [ZeroFm EXCEPT !.committer = raw.committer, !.lock = raw.lock]
  /\ length = 0
  /\ handle = NULL
  /\ live = [a \in {} |-> 0]
  /\ disk = [a \in {} |-> ZeroPage]
  /\ diskFm = ZeroFm
  /\ synced = FALSE
  /\ last = NoCall
  /\ calls = <<>>
  /\ pc = [t \in Threads |-> "idle"]
  /\ tl = [t \in Threads |-> NoLocals]
  /\ seqPg = pg
  /\ seqFm = fm

FmemCreateNew(len, min_alloc, committer) ==
  /\ handle <= 0
  /\ Idle
  /\ \E r \in {fmem_create_new(Machine, RegionBase, len, min_alloc, committer)} :
         /\ pg' = r.m.pg
         /\ fm' = r.m.fm
         /\ disk' = r.m.disk
         /\ diskFm' = r.m.diskFm
         /\ handle' = r.ret
         /\ synced' = (r.ret > 0 /\ r.m.fm.committer = CopyCommitter)
         /\ last' = [NoCall EXCEPT !.op = "create_new", !.arg = len, !.arg2 = min_alloc,
                                    !.arg3 = committer,
                                    !.ret = r.ret]
         /\ calls' = r.calls
  /\ length' = len
  /\ live' = [a \in {} |-> 0]
  /\ UNCHANGED <<pc, tl, seqPg, seqFm>>

FmemAlloc(size) ==
  /\ handle > 0
  /\ Idle
  /\ fm.lock = 0
  /\ \E r \in {fmem_alloc(Machine, handle, size)} :
         /\ pg' = r.m.pg
         /\ fm' = r.m.fm
         /\ disk' = r.m.disk
         /\ diskFm' = r.m.diskFm
         /\ live' = IF r.ret > 0 THEN (r.ret :> size) @@ live ELSE live
         /\ synced' = (synced /\ fm.committer = CopyCommitter)
         /\ last' = [op |-> "alloc", arg |-> size, arg2 |-> 0, arg3 |-> 0, ret |-> r.ret,
                     carved |-> r.carved, page |-> r.selected,
                     npages |-> Len(PageList(pg, HeadPage)),
                     first_fit |-> FirstFit(pg, adjusted_alloc_of(fm, size))]
         /\ calls' = r.calls
  /\ UNCHANGED <<length, handle, pc, tl, seqPg, seqFm>>

FmemFree(mem) ==
  /\ handle > 0
  /\ Idle
  /\ fm.lock = 0
  /\ mem \in DOMAIN live
  /\ \E r \in {fmem_free(Machine, handle, mem)} :
     \E k \in {Tracked(r.m, fpage_from_mem(handle))} :
         /\ pg' = k.pg
         /\ fm' = k.fm
         /\ disk' = k.disk
         /\ diskFm' = k.diskFm
         /\ synced' = (synced /\ fm.committer = CopyCommitter)
         /\ last' = [op |-> "free", arg |-> mem, arg2 |-> 0, arg3 |-> 0, ret |-> r.ret,
                     carved |-> FALSE, page |-> r.modified,
                     npages |-> Len(PageList(pg, HeadPage)),
                     first_fit |-> NULL]
         /\ calls' = r.calls
         /\ live' = IF r.modified = NULL THEN live
                    ELSE [a \in DOMAIN live \ {mem} |-> live[a]]
  /\ UNCHANGED <<length, handle, pc, tl, seqPg, seqFm>>

Next ==
  \/ \E len \in LengthSet, min_alloc \in MinAllocSet, committer \in Committers :
       FmemCreateNew(len, min_alloc, committer)
  \/ \E size \in SizeSet : FmemAlloc(size)
  \/ \E mem \in DOMAIN live : FmemFree(mem)

Spec == Init /\ [][Next]_vars

----------------------------------------------------------------------------
(* The same client with the rest of the interface: reopening the region,   *)
(* committing the user slots and allocated memory, writing the user slots  *)
(* (ApiSpec), and a client overwriting the magic of a page header          *)
(* (PoisonSpec).                                                           *)

ApiCommitters == {NULL, FailCommitter, TheCommitter}
ApiSizeSet    == {1, MaxSize}
ApiLengthSet  == {MaxLength - 3 * SizeofFmemPage}
PoisonLengthSet == {MaxLength - 2 * SizeofFmemPage}
CommitLenSet  == {0, 1, DEFAULT_MIN_ALLOC + 1, MaxSize + PAGE_REMAIN_FREE + 1}
UserSlots     == {1, 4}

Uncorrupted(P) == \A a \in DOMAIN P : fpage_get_magic(P, a) = POISON

FmemFromExisting(committer) ==
  /\ handle > 0
  /\ Idle
  /\ \E r \in {fmem_from_existing(Machine, RegionBase, committer)} :
         /\ pg' = r.m.pg
         /\ fm' = r.m.fm
         /\ handle' = IF r.ret > 0 THEN r.ret ELSE handle
         /\ synced' = (synced /\ r.m.fm.committer = CopyCommitter)
         /\ last' = [NoCall EXCEPT !.op = "reopen", !.arg = committer,
                                    !.arg2 = fm.lock, !.ret = r.ret]
         /\ calls' = r.calls
  /\ UNCHANGED <<length, live, disk, diskFm, pc, tl, seqPg, seqFm>>

FmemCommitUserData ==
  /\ handle > 0
  /\ Idle
  /\ \E r \in {fmem_commit_user_data(Machine, handle)} :
         /\ pg' = r.m.pg
         /\ fm' = r.m.fm
         /\ disk' = r.m.disk
         /\ diskFm' = r.m.diskFm
         /\ last' = [NoCall EXCEPT !.op = "commit_user_data", !.ret = r.ret]
         /\ calls' = r.calls
  /\ UNCHANGED <<length, handle, live, synced, pc, tl, seqPg, seqFm>>

FmemCommitMem(mem, len) ==
  /\ handle > 0
  /\ Idle
  /\ mem \in DOMAIN live
  /\ \E r \in {fmem_commit_mem(Machine, handle, mem, len)} :
         /\ pg' = r.m.pg
         /\ fm' = r.m.fm
         /\ disk' = r.m.disk
         /\ diskFm' = r.m.diskFm
         /\ last' = [NoCall EXCEPT !.op = "commit_mem", !.arg = mem, !.arg2 = len,
                                    !.ret = r.ret]
         /\ calls' = r.calls
  /\ UNCHANGED <<length, handle, live, synced, pc, tl, seqPg, seqFm>>

\* the client stores a pointer in a user slot that holds none
WriteUser(slot, v) ==
  /\ handle > 0
  /\ Idle
  /\ fm.user1 = NULL
  /\ fm.user4 = NULL
  /\ fm' = IF slot = 1 THEN [fm EXCEPT !.user1 = v] ELSE [fm EXCEPT !.user4 = v]
  /\ last' = [NoCall EXCEPT !.op = "write_user", !.arg = slot, !.arg2 = v]
  /\ calls' = <<>>
  /\ UNCHANGED <<pg, length, handle, live, disk, diskFm, synced, pc, tl, seqPg, seqFm>>

\* a client overwrites the magic of one header, as the tests do with
\* fpage_set_magic(page, 0)
Corrupt(a) ==
  /\ handle > 0
  /\ Idle
  /\ a \in DOMAIN pg
  /\ Uncorrupted(pg)
  /\ pg' = fpage_set_magic(pg, a, 0)
  /\ synced' = FALSE
  /\ last' = [NoCall EXCEPT !.op = "corrupt", !.arg = a]
  /\ calls' = <<>>
  /\ UNCHANGED <<fm, length, handle, live, disk, diskFm, pc, tl, seqPg, seqFm>>

ApiNext ==
  \/ \E len \in ApiLengthSet, committer \in ApiCommitters \cup {CopyCommitter} :
       FmemCreateNew(len, DEFAULT_MIN_ALLOC, committer)
  \/ \E size \in ApiSizeSet : FmemAlloc(size)
  \/ \E mem \in DOMAIN live : FmemFree(mem)
  \/ \E committer \in ApiCommitters : FmemFromExisting(committer)
  \/ FmemCommitUserData
  \/ \E mem \in DOMAIN live, len \in CommitLenSet : FmemCommitMem(mem, len)
  \/ \E slot \in UserSlots : WriteUser(slot, mem_from_fpage(MainPage))

ApiSpec == Init /\ [][ApiNext]_vars

\* a caller takes the lock with fmem_lock and dies before it unlocks: the
\* region is left with the lock word set (the case fmem.c line 204 names)
FmemLockLeft ==
  /\ handle > 0
  /\ Idle
  /\ \E r \in {atomic_compare_swap(fm, 0, 1)} :
       /\ r.ok
       /\ fm' = r.F
  /\ last' = [NoCall EXCEPT !.op = "lock"]
  /\ calls' = <<>>
  /\ UNCHANGED <<pg, length, handle, live, disk, diskFm, synced, pc, tl, seqPg, seqFm>>

ReopenCommitters == {NULL, CopyCommitter, FailCommitter, TheCommitter}

ReopenNext ==
  \/ \E len \in ApiLengthSet, committer \in ReopenCommitters :
       FmemCreateNew(len, DEFAULT_MIN_ALLOC, committer)
  \/ \E size \in ApiSizeSet : FmemAlloc(size)
  \/ \E mem \in DOMAIN live : FmemFree(mem)
  \/ FmemLockLeft
  \/ \E committer \in ReopenCommitters : FmemFromExisting(committer)
  \/ \E a \in DOMAIN pg : Corrupt(a)

ReopenSpec == Init /\ [][ReopenNext]_vars

PoisonNext ==
  \/ \E len \in PoisonLengthSet, committer \in {NULL, CopyCommitter} :
       FmemCreateNew(len, DEFAULT_MIN_ALLOC, committer)
  \/ \E size \in ApiSizeSet : FmemAlloc(size)
  \/ \E mem \in DOMAIN live : FmemFree(mem)
  \/ FmemFromExisting(NULL)
  \/ \E a \in DOMAIN pg : Corrupt(a)

PoisonSpec == Init /\ [][PoisonNext]_vars

----------------------------------------------------------------------------
(* fmem_create_new on lengths of the full size_t range.  A length is kept  *)
(* as two limbs, hi * 2^16 + lo with lo < 2^16, so that lengths above 2^32 *)
(* can be written; a uint32_t keeps the low 16 bits of hi.                 *)

Limb == 65536          \* 2^16

WideHiMax == 65537     \* the largest high limb of a length: 2^32 + 2^16 + lo
WideLoMax == 150       \* the largest low limb of a length

WideLengths ==
  {[hi |-> h, lo |-> l] : h \in {0, 1, WideHiMax - 2, WideHiMax - 1, WideHiMax},
                          l \in 0..WideLoMax}

\* w - k for 0 <= k < 2^16 <= w or k <= w.lo
WideSub(w, k) ==
  IF w.lo >= k THEN [hi |-> w.hi, lo |-> w.lo - k]
  ELSE [hi |-> w.hi - 1, lo |-> w.lo + Limb - k]

\* (uint32_t) w
Uint32(w) == [hi |-> w.hi % Limb, lo |-> w.lo]

\* fmem_create_new lines 183-211 on a wide length: the result, the size
\* fields of the two pages and the accounting fields
create_new_wide(len, min_alloc) ==
  LET reject == IF len.hi = 0 THEN create_reject(len.lo, min_alloc) ELSE 0
      head_size == PAGE_OVERHEAD + SizeofFmem
  IN  IF reject # 0
      THEN [ret |-> reject, head_size |-> 0, main_size |-> [hi |-> 0, lo |-> 0],
            total_size |-> [hi |-> 0, lo |-> 0],
            total_available |-> [hi |-> 0, lo |-> 0]]
      ELSE [ret |-> mem_from_fpage(RegionBase),
            head_size |-> head_size,
            main_size |-> Uint32(WideSub(len, head_size)),
            total_size |-> len,
            total_available |-> WideSub(len, (2 * PAGE_OVERHEAD) + SizeofFmem)]

CreateNewWide(len) ==
  /\ last.op = "none"
  /\ \E r \in {create_new_wide(len, DEFAULT_MIN_ALLOC)} :
       last' = [op |-> "create_new", arg |-> len, arg2 |-> DEFAULT_MIN_ALLOC,
                ret |-> r.ret, head_size |-> r.head_size, main_size |-> r.main_size,
                total_size |-> r.total_size, total_available |-> r.total_available]
  /\ UNCHANGED <<pg, fm, length, handle, live, disk, diskFm, synced, calls,
                 pc, tl, seqPg, seqFm>>

WideNext == \E len \in WideLengths : CreateNewWide(len)

WideSpec == Init /\ [][WideNext]_vars

----------------------------------------------------------------------------
(* Several threads calling fmem_alloc and fmem_free on one fmem.  A call   *)
(* takes the steps of the code: the part before fmem_lock, the compare and *)
(* swap that takes the lock, the walk or the merge, the accounting and the *)
(* commit, fmem_unlock and return.  seqPg and seqFm follow the same calls  *)
(* run one after the other, whole, in the order the lock was taken.        *)

InCall == {"walk", "done", "merge", "fdone", "unlock"}

ThreadInit ==
  /\ \E committer \in {NULL, CopyCommitter} :
       \E r \in {fmem_create_new(
                   [pg |-> [a \in {HeadPage, MainPage} |-> ZeroPage], fm |-> ZeroFm,
                    disk |-> [a \in {} |-> ZeroPage], diskFm |-> ZeroFm],
                   RegionBase, MaxLength - SizeofFmemPage, DEFAULT_MIN_ALLOC, committer)} :
         /\ pg = r.m.pg
         /\ fm = r.m.fm
         /\ disk = r.m.disk
         /\ diskFm = r.m.diskFm
         /\ handle = r.ret
         /\ synced = (committer = CopyCommitter)
  /\ length = MaxLength - SizeofFmemPage
  /\ live = [a \in {} |-> 0]
  /\ last = NoCall
  /\ calls = <<>>
  /\ pc = [t \in Threads |-> "idle"]
  /\ tl = [t \in Threads |-> NoLocals]
  /\ seqPg = pg
  /\ seqFm = fm

SeqMachine == [pg |-> seqPg, fm |-> seqFm, disk |-> disk, diskFm |-> diskFm]

\* fmem_alloc lines 258-260
TAllocCall(t, size) ==
  /\ pc[t] = "idle"
  /\ tl' = [tl EXCEPT ![t] = [NoLocals EXCEPT !.op = "alloc", !.arg = size,
                                !.adjusted_alloc = adjusted_alloc_of(fm, size)]]
  /\ pc' = [pc EXCEPT ![t] = "lock"]
  /\ UNCHANGED <<pg, fm, length, handle, live, disk, diskFm, synced, last, calls,
                 seqPg, seqFm>>

\* fmem_free lines 351-355; the client frees each live allocation once
TFreeCall(t, mem) ==
  /\ pc[t] = "idle"
  /\ mem \in DOMAIN live
  /\ \A u \in Threads : ~(tl[u].op = "free" /\ tl[u].arg = mem)
  /\ LET check == fail_on_poison_check(fpage_get_magic(pg, fpage_from_mem(mem)), POISON)
     IN  IF check # 0
         THEN /\ tl' = [tl EXCEPT ![t] = NoLocals]
              /\ pc' = pc
         ELSE /\ tl' = [tl EXCEPT ![t] = [NoLocals EXCEPT !.op = "free", !.arg = mem]]
              /\ pc' = [pc EXCEPT ![t] = "lock"]
  /\ UNCHANGED <<pg, fm, length, handle, live, disk, diskFm, synced, last, calls,
                 seqPg, seqFm>>

\* fmem_lock: one compare and swap that succeeds; a failed one changes nothing
TLock(t) ==
  /\ pc[t] = "lock"
  /\ \E c \in {atomic_compare_swap(fm, 0, 1)} :
       /\ c.ok
       /\ fm' = c.F
  /\ \E r \in {IF tl[t].op = "alloc"
               THEN fmem_alloc(SeqMachine, handle, tl[t].arg)
               ELSE fmem_free(SeqMachine, handle, tl[t].arg)} :
       /\ seqPg' = Linked(r.m.pg, HeadPage)
       /\ seqFm' = r.m.fm
       /\ tl' = [tl EXCEPT ![t].expect = r.ret]
  /\ pc' = [pc EXCEPT ![t] = IF tl[t].op = "alloc" THEN "walk" ELSE "merge"]
  /\ UNCHANGED <<pg, length, handle, live, disk, diskFm, synced, last, calls>>

\* fmem_alloc lines 263-302
TAllocWalk(t) ==
  /\ pc[t] = "walk"
  /\ \E w \in {alloc_walk(pg, fm, handle, tl[t].adjusted_alloc)} :
       /\ pg' = w.P
       /\ tl' = [tl EXCEPT ![t].selected = w.selected, ![t].carved = w.carved,
                           ![t].wret = w.ret]
  /\ pc' = [pc EXCEPT ![t] = "done"]
  /\ UNCHANGED <<fm, length, handle, live, disk, diskFm, synced, last, calls,
                 seqPg, seqFm>>

\* fmem_alloc lines 304-342
TAllocDone(t) ==
  /\ pc[t] = "done"
  /\ \E d \in {alloc_done(Machine, [P |-> pg, selected |-> tl[t].selected,
                                    carved |-> tl[t].carved, ret |-> tl[t].wret])} :
       /\ pg' = d.m.pg
       /\ fm' = d.m.fm
       /\ disk' = d.m.disk
       /\ diskFm' = d.m.diskFm
       /\ tl' = [tl EXCEPT ![t].ret = d.ret]
  /\ pc' = [pc EXCEPT ![t] = "unlock"]
  /\ UNCHANGED <<length, handle, live, synced, last, calls, seqPg, seqFm>>

\* fmem_free lines 360-362
TFreeMerge(t) ==
  /\ pc[t] = "merge"
  /\ \E g \in {free_merge(pg, fpage_from_mem(tl[t].arg))} :
       /\ pg' = g.P
       /\ tl' = [tl EXCEPT ![t].to_free = g.to_free, ![t].modified = g.modified]
  /\ pc' = [pc EXCEPT ![t] = "fdone"]
  /\ UNCHANGED <<fm, length, handle, live, disk, diskFm, synced, last, calls,
                 seqPg, seqFm>>

\* fmem_free lines 364-391
TFreeDone(t) ==
  /\ pc[t] = "fdone"
  /\ \E d \in {free_done(Machine, fpage_from_mem(tl[t].arg),
                         [P |-> pg, to_free |-> tl[t].to_free,
                          modified |-> tl[t].modified])} :
     \E k \in {Tracked(d.m, HeadPage)} :
       /\ pg' = k.pg
       /\ fm' = k.fm
       /\ disk' = k.disk
       /\ diskFm' = k.diskFm
       /\ tl' = [tl EXCEPT ![t].ret = d.ret]
  /\ pc' = [pc EXCEPT ![t] = "unlock"]
  /\ UNCHANGED <<length, handle, live, synced, last, calls, seqPg, seqFm>>

\* fmem_unlock and the return to the caller
TUnlock(t) ==
  /\ pc[t] = "unlock"
  /\ fm' = fmem_unlock(fm)
  /\ live' = IF tl[t].op = "free"
             THEN [a \in DOMAIN live \ {tl[t].arg} |-> live[a]]
             ELSE IF tl[t].ret > 0 THEN (tl[t].ret :> tl[t].arg) @@ live
             ELSE live
  /\ tl' = [tl EXCEPT ![t] = NoLocals]
  /\ pc' = [pc EXCEPT ![t] = "idle"]
  /\ UNCHANGED <<pg, length, handle, disk, diskFm, synced, last, calls, seqPg, seqFm>>

ThreadNext ==
  \/ \E t \in Threads, size \in SizeSet : TAllocCall(t, size)
  \/ \E t \in Threads, mem \in DOMAIN live : TFreeCall(t, mem)
  \/ \E t \in Threads : TLock(t)
  \/ \E t \in Threads : TAllocWalk(t)
  \/ \E t \in Threads : TAllocDone(t)
  \/ \E t \in Threads : TFreeMerge(t)
  \/ \E t \in Threads : TFreeDone(t)
  \/ \E t \in Threads : TUnlock(t)

ThreadSpec == ThreadInit /\ [][ThreadNext]_vars

\* where a thread goes with its next step inside a call
NextPc(at, op) ==
  IF at = "lock" THEN (IF op = "alloc" THEN "walk" ELSE "merge")
  ELSE IF at = "walk" THEN "done"
  ELSE IF at = "merge" THEN "fdone"
  ELSE IF at \in {"done", "fdone"} THEN "unlock"
  ELSE "idle"

\* thread t takes the next step of the call it is in.  A thread spinning in
\* fmem_lock takes its step only when its compare and swap finds the lock
\* word 0.
TRuns(t) ==
  /\ pc[t] # "idle"
  /\ pc[t] = "lock" => fm.lock = 0
  /\ pc' = [pc EXCEPT ![t] = NextPc(pc[t], tl[t].op)]

\* The scheduler lets every thread run again and again: a step of a thread
\* that stays possible is taken.  Nothing in fmem_lock makes the compare and
\* swap succeed for a thread that keeps finding the word 1.
ThreadFairSpec == ThreadSpec /\ \A t \in Threads : WF_pc(TRuns(t))

----------------------------------------------------------------------------
(* Properties of the page list and the accounting block.                   *)

Pages == PageList(pg, HeadPage)
Created == handle > 0
IsFree(a) == fpage_is_free(pg, a)

RECURSIVE SumSizes(_)
SumSizes(S) ==
  IF S = {} THEN 0
  ELSE LET a == CHOOSE x \in S : TRUE IN pg[a].size + SumSizes(S \ {a})

\* C1: after a successful create_new and any alloc/free calls, the list
\* starts at the region, each page's successor in the list starts at
\* p + p.size, the last page ends at region + length and links back to the
\* head: list order is memory order, without gap or overlap.
C1_Contiguous ==
  Created =>
    LET s == Pages
    IN  /\ Len(s) >= 2
        /\ s[1] = RegionBase
        /\ \A i \in 1..(Len(s) - 1) : s[i + 1] = s[i] + pg[s[i]].size
        /\ s[Len(s)] + pg[s[Len(s)]].size = RegionBase + length
        /\ pg[s[Len(s)]].next = ListOf(HeadPage)
        /\ Range(s) = DOMAIN pg

\* a free that merged the page into its predecessor, with pages left around
C1_Witness ==
  /\ Created /\ last.op = "free" /\ last.ret > 0
  /\ last.page # fpage_from_mem(last.arg)
  /\ Len(Pages) >= 4

\* C2: the sizes of all pages of the list, head included, add up to
\* total_size.
C2_SizesSumToTotal ==
  Created => SumSizes(Range(Pages)) = fm.total_size

\* a free that merged three pages into one
C2_Witness ==
  /\ Created /\ last.op = "free" /\ last.ret > 0
  /\ Len(Pages) = last.npages - 2

\* C3 (as claimed): total_available equals the sum of the sizes, header
\* included, of the free pages of the list.
C3_AvailableIsFreeSum ==
  Created => fm.total_available = SumSizes({a \in Range(Pages) : IsFree(a)})

\* C4: alloc_objects equals the number of busy pages other than the head.
C4_AllocObjectsCount ==
  Created =>
    fm.alloc_objects = Cardinality({a \in Range(Pages) \ {HeadPage} : ~IsFree(a)})

\* a free that left other allocations behind
C4_Witness ==
  /\ Created /\ last.op = "free" /\ last.ret > 0
  /\ fm.alloc_objects >= 2

\* C5: no two pages adjacent in the list are both free.
C5_NoAdjacentFree ==
  Created =>
    \A a \in Range(Pages) :
      IsFree(a) => ~IsFree(list_entry(pg[a].next)) /\ ~IsFree(list_entry(pg[a].prev))

\* a free between a free predecessor and a busy successor, and one whose
\* page stayed in place with a free page somewhere else in the list
C5_Witness ==
  /\ Created /\ last.op = "free" /\ last.ret > 0
  /\ Cardinality({a \in Range(Pages) : IsFree(a)}) >= 2
  /\ Len(Pages) < last.npages

\* C6: with no corrupted page, alloc selects the first free page in memory
\* order whose payload is at least need = max(n, min_alloc), and returns
\* FMEM_E_NOMEM exactly when no free page has that payload.
C6_FirstFit ==
  (Created /\ last.op = "alloc") =>
    /\ (last.ret = FMEM_E_NOMEM) <=> (last.first_fit = NULL)
    /\ last.first_fit # NULL =>
         /\ last.page # NULL
         /\ last.page = IF last.carved
                        THEN last.first_fit + pg[last.first_fit].size
                        ELSE last.first_fit

\* an alloc that passed over a free page too small and took a later one, and
\* an alloc refused while free pages exist
C6_Witness ==
  /\ Created /\ last.op = "alloc"
  /\ \/ /\ last.first_fit # NULL
        /\ \E a \in Range(Pages) : IsFree(a) /\ a < last.first_fit
     \/ /\ last.ret = FMEM_E_NOMEM
        /\ \E a \in Range(Pages) : IsFree(a)
        /\ fm.total_available >= adjusted_alloc_of(fm, last.arg)

Payload(a) == {b \in a..(a + pg[fpage_from_mem(a)].size - PAGE_OVERHEAD - 1) : TRUE}
Header(p) == p..(p + SizeofFmemPage - 1)
AccountingBlock == mem_from_fpage(HeadPage)..(mem_from_fpage(HeadPage) + SizeofFmem - 1)

\* C7: the payloads of the live allocations are pairwise disjoint, lie in
\* the region, hold at least max(n, min_alloc) bytes for the n asked, and
\* overlap no page header and not the accounting block.
C7_PayloadsDisjoint ==
  Created =>
    \A a \in DOMAIN live :
      /\ fpage_from_mem(a) \in Range(Pages)
      /\ ~IsFree(fpage_from_mem(a))
      /\ Payload(a) \subseteq RegionBase..(RegionBase + length - 1)
      /\ Cardinality(Payload(a)) >= live[a]
      /\ Cardinality(Payload(a)) >= fm.min_alloc
      /\ Payload(a) \cap AccountingBlock = {}
      /\ \A p \in Range(Pages) : Payload(a) \cap Header(p) = {}
      /\ \A b \in DOMAIN live : b # a => Payload(a) \cap Payload(b) = {}

\* three live allocations, one of them taken as is from a page freed before
C7_Witness ==
  /\ Created /\ last.op = "alloc" /\ last.ret > 0 /\ ~last.carved
  /\ Cardinality(DOMAIN live) >= 3

\* C9 (as claimed): under a committer that copies every range it is given,
\* after each successful call the persisted image of every page header of
\* the list equals the header in the region.
C9_PersistedHeaders ==
  (Created /\ synced /\ last.ret > 0) =>
    \A a \in Range(Pages) : DiskAt(disk, a) = pg[a]

\* C10 (as claimed): with a committer installed, a successful alloc that
\* carves invokes it once with three ranges (the selected header, the
\* previous sibling's header, the next sibling's link pair) and one that
\* does not carve invokes it once with the one range of the selected header.
C10_AllocRanges ==
  (Created /\ last.op = "alloc" /\ last.ret > 0 /\ fm.committer # NULL) =>
    /\ Len(calls) = 1
    /\ IF last.carved
       THEN /\ calls[1].count = 3
            /\ SubSeq(calls[1].ranges, 1, calls[1].count) =
                 <<commit_range(last.page, SizeofFmemPage),
                   commit_range(list_entry(pg[last.page].prev), SizeofFmemPage),
                   commit_range(pg[last.page].next, SizeofListHead)>>
       ELSE /\ calls[1].count = 1
            /\ SubSeq(calls[1].ranges, 1, calls[1].count) =
                 <<commit_range(last.page, SizeofFmemPage)>>

\* C8: for any interleaving of alloc and free calls of several threads, at
\* most one thread is between fmem_lock and fmem_unlock, and the page list,
\* the accounting fields and the values returned are those of the same
\* calls run one after the other in the order the lock was taken.
C8_Linearizable ==
  /\ Cardinality({t \in Threads : pc[t] \in InCall}) <= 1
  /\ \A t \in Threads :
       pc[t] = "unlock" =>
         /\ tl[t].ret = tl[t].expect
         /\ pg = seqPg
         /\ fmem_unlock(fm) = seqFm
  /\ (\A t \in Threads : pc[t] \notin InCall) => (pg = seqPg /\ fm = seqFm)

\* a free that finished in the lock while another thread waits for it with
\* an alloc, other allocations being live
C8_Witness ==
  \E t, u \in Threads :
    /\ pc[t] = "unlock" /\ tl[t].op = "free" /\ tl[t].ret > 0
    /\ pc[u] = "lock" /\ tl[u].op = "alloc"
    /\ Cardinality(DOMAIN live) >= 2

\* the submitted ranges of the committer invocation c
Submitted(c) == {c.ranges[i] : i \in 1..c.count}

\* the header fields of page a that differ between the headers P and Q,
\* each as its address and length in bytes
ChangedFields(P, Q, a) ==
  (IF P[a].flags # Q[a].flags THEN {<<a, 4>>} ELSE {}) \cup
  (IF P[a].size # Q[a].size THEN {<<a + 4, 4>>} ELSE {}) \cup
  (IF P[a].next # Q[a].next THEN {<<a + OffsetofList, SizeofPtr>>} ELSE {}) \cup
  (IF P[a].prev # Q[a].prev THEN {<<a + OffsetofList + SizeofPtr, SizeofPtr>>} ELSE {})

\* the page of the list P whose header lies next below address f, and the
\* one next above it (the head when f is in the last page)
Preceding(P, f) ==
  CHOOSE a \in DOMAIN P : a < f /\ \A b \in DOMAIN P : b < f => b <= a
Following(P, f) ==
  IF \E a \in DOMAIN P : a > f
  THEN CHOOSE a \in DOMAIN P : a > f /\ \A b \in DOMAIN P : b > f => a <= b
  ELSE HeadPage

\* C11: with a committer installed, a free invokes it once with three
\* ranges: the whole header of the page that survives the merge, the link
\* pair of the page now before the freed bytes and the link pair of the page
\* now after them; every header field the free changed lies in one of them.
C11_FreeRanges ==
  [][(last'.op = "free" /\ fm.committer # NULL) =>
       LET f == fpage_from_mem(last'.arg)
       IN  /\ Len(calls') = 1
           /\ calls'[1].count = 3
           /\ calls'[1].ranges =
                <<commit_range(last'.page, SizeofFmemPage),
                  commit_range(ListOf(Preceding(pg', f)), SizeofListHead),
                  commit_range(ListOf(Following(pg', f)), SizeofListHead)>>
           /\ \A a \in DOMAIN pg' : \A c \in ChangedFields(pg, pg', a) :
                \E r \in Submitted(calls'[1]) : Covers(r, c[1], c[2])
    ]_vars

\* frees under a committer: one that merged three pages into one
C11_Witness ==
  /\ Created /\ last.op = "free" /\ fm.committer # NULL
  /\ Len(calls) = 1 /\ calls[1].count = 3
  /\ last.page < fpage_from_mem(last.arg)
  /\ Len(Pages) = last.npages - 2

\* C12 (as claimed): under a committer that copies every range it is given,
\* after each successful alloc or free the persisted total_available and
\* alloc_objects equal those of the accounting block in the region.
C12_PersistedAccounting ==
  (Created /\ synced /\ last.op \in {"alloc", "free"} /\ last.ret > 0) =>
    /\ diskFm.total_available = fm.total_available
    /\ diskFm.alloc_objects = fm.alloc_objects

\* C13: create_new, alloc, free, commit_user_data and commit_mem take a
\* committer result >= 0 for success and a negative one for failure; on a
\* negative result alloc and free return E_COMMIT_FAILED, the mutation of the
\* region is kept (alloc: the selected page busy and counted; free: the page
\* free and merged, the accounting updated) and the lock is released.
C13_CommitResult ==
  [][Len(calls') = 1 =>
       LET c == calls'[1]
           f == fpage_from_mem(last'.arg)
       IN  /\ last'.op \in {"create_new", "alloc", "free", "commit_user_data", "commit_mem"}
           /\ c.res >= 0 => last'.ret > 0
           /\ c.res < 0 => (last'.ret = E_COMMIT_FAILED /\ fm'.lock = 0)
           /\ (c.res < 0 /\ last'.op = "alloc") =>
                /\ last'.page \in DOMAIN pg'
                /\ ~fpage_is_free(pg', last'.page)
                /\ fm'.alloc_objects = fm.alloc_objects + 1
                /\ fm'.total_available = fm.total_available - pg'[last'.page].size
                /\ last'.carved => Cardinality(DOMAIN pg') = Cardinality(DOMAIN pg) + 1
           /\ (c.res < 0 /\ last'.op = "free") =>
                /\ fpage_is_free(pg', last'.page)
                /\ last'.page <= f
                /\ f < last'.page + pg'[last'.page].size
                /\ fm'.alloc_objects = fm.alloc_objects - 1
                /\ fm'.total_available = fm.total_available + pg[f].size
    ]_vars

\* an alloc that carved and whose commit failed, and in the same region a
\* user slot committed with a positive committer result earlier
C13_Witness ==
  /\ Created /\ last.op = "alloc" /\ last.carved
  /\ Len(calls) = 1 /\ calls[1].res < 0
  /\ last.ret = E_COMMIT_FAILED
  /\ diskFm.user1 # NULL

\* C14 (as claimed): the value an operation returns tells which error
\* occurred: the values of its error kinds are pairwise distinct, so
\* E_COMMIT_FAILED is returned only when a committer was invoked and failed,
\* E_BAD_INIT_MEM and E_TOTAL_ALLOCATION_SIZE_TOO_SMALL only for their
\* lengths, FMEM_E_NOMEM and the corruption value only without a failed
\* commit.
C14_ErrorsDistinct ==
  LET commit_failed == Len(calls) = 1 /\ calls[1].res < 0
  IN  /\ last.op = "create_new" =>
           Cardinality({E_TOTAL_ALLOCATION_SIZE_TOO_SMALL, E_BAD_INIT_MEM,
                        E_COMMIT_FAILED}) = 3
      /\ last.op \in {"alloc", "free"} =>
           Cardinality({FMEM_E_NOMEM, E_COMMIT_FAILED, EE_BAD_MEM}) = 3
      /\ (last.op = "create_new" /\ last.ret = E_COMMIT_FAILED) => commit_failed
      /\ (last.op = "create_new" /\ last.ret = E_BAD_INIT_MEM) =>
           (~commit_failed /\ last.arg < last.arg2 + (2 * PAGE_OVERHEAD) + SizeofFmem)
      /\ (last.op = "create_new" /\ last.ret = E_TOTAL_ALLOCATION_SIZE_TOO_SMALL) =>
           (~commit_failed /\ last.arg < MIN_TOTAL_ALLOCATION)
      /\ (last.op \in {"alloc", "free"} /\ last.ret = E_COMMIT_FAILED) => commit_failed
      /\ (last.op \in {"alloc", "free"} /\ last.ret = EE_BAD_MEM) => ~commit_failed
      /\ (last.op = "alloc" /\ last.ret = FMEM_E_NOMEM) => ~commit_failed

BadMagic(P, a) == fpage_get_magic(P, a) # POISON

\* the walk of an alloc that needs need bytes comes to a page with a wrong
\* magic before it comes to a free page that fits
WalkReachesBad(P, F, need) ==
  /\ ~SizeTLess(F.total_available, need)
  /\ \E c \in DOMAIN P \ {HeadPage} :
       /\ BadMagic(P, c)
       /\ \A a \in DOMAIN P \ {HeadPage} :
            a < c => ~(fpage_is_free(P, a) /\ fpage_actual(P, a) >= need)

\* C15: in the test build, reopen returns the corruption value when the
\* magic of the head page is wrong, alloc when its walk reaches a page, busy
\* or free, with a wrong magic before it selects one, free when the page of
\* the address has a wrong magic; then no header, accounting field or lock
\* is modified and the committer is not invoked.
C15_PoisonDetected ==
  [][(\/ last'.op = "reopen" /\ BadMagic(pg, HeadPage)
      \/ last'.op = "free" /\ BadMagic(pg, fpage_from_mem(last'.arg))
      \/ last'.op = "alloc" /\ WalkReachesBad(pg, fm, adjusted_alloc_of(fm, last'.arg)))
     => /\ last'.ret = EE_BAD_MEM
        /\ pg' = pg
        /\ fm' = fm
        /\ disk' = disk
        /\ diskFm' = diskFm
        /\ calls' = <<>>
    ]_vars

\* an alloc stopped at a busy page with a wrong magic, a free page that
\* fits lying behind it, under an installed committer
C15_Witness ==
  /\ Created /\ last.op = "alloc" /\ last.ret = EE_BAD_MEM /\ calls = <<>>
  /\ fm.committer # NULL
  /\ \E c \in DOMAIN pg \ {HeadPage} :
       /\ BadMagic(pg, c) /\ ~IsFree(c)
       /\ \E a \in DOMAIN pg : a > c /\ IsFree(a)
                               /\ fpage_actual(pg, a) >= adjusted_alloc_of(fm, last.arg)

\* C16: after create_new(region, length, m, c) succeeds the list holds two
\* pages, the head at region (busy, magic stamped, size H + A) and a free
\* page with the magic right after it; total_size = length,
\* total_available = length - 2H - A, alloc_objects = 0,
\* min_alloc = max(m, H) and the lock is unlocked.
C16_CreatedState ==
  (last.op = "create_new" /\ last.ret > 0) =>
    /\ Pages = <<RegionBase, RegionBase + SizeofFmemPage + SizeofFmem>>
    /\ pg[Pages[1]].size = SizeofFmemPage + SizeofFmem
    /\ ~IsFree(Pages[1])
    /\ fpage_get_magic(pg, Pages[1]) = POISON
    /\ IsFree(Pages[2])
    /\ fpage_get_magic(pg, Pages[2]) = POISON
    /\ fm.total_size = last.arg
    /\ fm.total_available = last.arg - (2 * SizeofFmemPage) - SizeofFmem
    /\ fm.alloc_objects = 0
    /\ fm.min_alloc = (IF last.arg2 > SizeofFmemPage THEN last.arg2 ELSE SizeofFmemPage)
    /\ fm.lock = 0

\* a create_new that succeeded with a min_alloc below H on a region whose
\* bytes held a locked lock word and set flag bits
C16_Witness ==
  /\ last.op = "create_new" /\ last.ret > 0
  /\ last.arg2 < SizeofFmemPage
  /\ pg[MainPage].flags.lo # 0
  /\ fm.min_alloc = SizeofFmemPage

\* C17 (as claimed): for every length create_new accepts, lengths whose
\* length - H - A does not fit in 32 bits included, the size field of the
\* main page equals length - H - A, so that the two sizes add up to
\* total_size right after creation.
C17_MainSizeExact ==
  (last.op = "create_new" /\ last.ret > 0) =>
    /\ last.main_size = WideSub(last.arg, SizeofFmemPage + SizeofFmem)
    /\ last.total_size = last.arg
    /\ last.head_size = SizeofFmemPage + SizeofFmem

\* C18: fmem_create_new returns E_TOTAL_ALLOCATION_SIZE_TOO_SMALL whenever
\* length < 3H + A, whatever min_alloc is, and otherwise E_BAD_INIT_MEM
\* whenever length < min_alloc + 2H + A with min_alloc as passed; in both
\* cases the region and the durable copy are left as they were and no
\* committer is called.
C18_CreateRejects ==
  [][ (last'.op = "create_new" =>
          /\ last'.arg < (3 * SizeofFmemPage) + SizeofFmem =>
               last'.ret = E_TOTAL_ALLOCATION_SIZE_TOO_SMALL
          /\ (/\ last'.arg >= (3 * SizeofFmemPage) + SizeofFmem
              /\ last'.arg < last'.arg2 + (2 * SizeofFmemPage) + SizeofFmem) =>
               last'.ret = E_BAD_INIT_MEM
          /\ (\/ last'.arg < (3 * SizeofFmemPage) + SizeofFmem
              \/ last'.arg < last'.arg2 + (2 * SizeofFmemPage) + SizeofFmem) =>
               /\ pg' = pg
               /\ fm' = fm
               /\ disk' = disk
               /\ diskFm' = diskFm
               /\ calls' = <<>>) ]_vars

\* a create_new turned down for its min_alloc alone, on a region whose
\* committer slot is not empty
C18_Witness ==
  /\ last.op = "create_new"
  /\ last.arg >= MIN_TOTAL_ALLOCATION
  /\ last.arg2 > DEFAULT_MIN_ALLOC
  /\ last.ret = E_BAD_INIT_MEM
  /\ fm.committer # NULL

\* C19 (as claimed): fmem_create_new with a committer calls it exactly once,
\* with one range that starts at the region and is 2H + A long, and returns
\* E_COMMIT_FAILED if the call returns a negative value; fmem_create_new
\* without a committer calls no committer.
C19_CreateCommits ==
  (last.op = "create_new" /\ create_reject(last.arg, last.arg2) = 0) =>
    /\ last.arg3 # NULL =>
         /\ Len(calls) = 1
         /\ calls[1].committer = last.arg3
         /\ calls[1].count = 1
         /\ calls[1].ranges =
              <<commit_range(RegionBase, (2 * SizeofFmemPage) + SizeofFmem)>>
         /\ calls[1].res < 0 => last.ret = E_COMMIT_FAILED
    /\ last.arg3 = NULL => calls = <<>>

\* the half of C19 about a call with a committer
C19_WithCommitter ==
  (last.op = "create_new" /\ create_reject(last.arg, last.arg2) = 0
     /\ last.arg3 # NULL) =>
    /\ Len(calls) = 1
    /\ calls[1].committer = last.arg3
    /\ calls[1].count = 1
    /\ calls[1].ranges =
         <<commit_range(RegionBase, (2 * SizeofFmemPage) + SizeofFmem)>>
    /\ calls[1].res < 0 => last.ret = E_COMMIT_FAILED

\* C20: fmem_from_existing on a region that fmem_create_new made, after any
\* allocations, frees and writes to user1..user4, returns the address of the
\* accounting block that fmem_create_new returned, and total_size,
\* total_available, alloc_objects, min_alloc, user1..user4 and every page
\* header are what they were before the call.
C20_ReopenRoundTrip ==
  [][ (last'.op = "reopen" /\ handle > 0) =>
        /\ last'.ret = handle
        /\ last'.ret = mem_from_fpage(RegionBase)
        /\ handle' = handle
        /\ pg' = pg
        /\ fm'.total_size = fm.total_size
        /\ fm'.total_available = fm.total_available
        /\ fm'.alloc_objects = fm.alloc_objects
        /\ fm'.min_alloc = fm.min_alloc
        /\ fm'.user1 = fm.user1
        /\ fm'.user2 = fm.user2
        /\ fm'.user3 = fm.user3
        /\ fm'.user4 = fm.user4 ]_vars

\* a reopen of a region with a written user slot, an object allocated and
\* a free page left beside it
C20_Witness ==
  /\ last.op = "reopen"
  /\ last.ret = handle
  /\ (fm.user1 # NULL \/ fm.user4 # NULL)
  /\ fm.alloc_objects >= 1
  /\ Cardinality(DOMAIN pg) >= 3
  /\ \E a \in DOMAIN pg \ {HeadPage} : fpage_is_free(pg, a)

\* C21: fmem_from_existing changes nothing in the region but the committer
\* field and the lock word, which it clears whatever it held (when the magic
\* of the head page is wrong it changes nothing at all), and it never calls
\* the committer.
C21_ReopenFrame ==
  [][ last'.op = "reopen" =>
        /\ pg' = pg
        /\ [fm' EXCEPT !.committer = NULL, !.lock = 0]
             = [fm EXCEPT !.committer = NULL, !.lock = 0]
        /\ last'.ret > 0 => fm'.lock = 0
        /\ last'.ret <= 0 => fm' = fm
        /\ calls' = <<>>
        /\ disk' = disk
        /\ diskFm' = diskFm ]_vars

\* a reopen of a region that was left locked, with objects allocated and
\* another committer than the stored one
C21_Witness ==
  /\ last.op = "reopen"
  /\ last.ret > 0
  /\ last.arg # NULL
  /\ last.arg2 = 1
  /\ fm.lock = 0
  /\ fm.alloc_objects >= 1
  /\ fm.committer = last.arg

\* C22 (as claimed): after fmem_create_new or fmem_from_existing succeeds
\* the committer field of the accounting block equals the committer
\* argument, NULL included, whatever the field held before the call.
C22_CommitterInstalled ==
  /\ (last.op = "create_new" /\ last.ret > 0) => fm.committer = last.arg3
  /\ (last.op = "reopen" /\ last.ret > 0) => fm.committer = last.arg

\* the pages that a free of page f in the list P absorbs into the survivor:
\* f itself when the page before it is free, and the page after f when that
\* one is free
Absorbed(P, f) ==
  LET p == list_entry(P[f].prev)
      n == list_entry(P[f].next)
  IN  (IF p # f /\ fpage_is_free(P, p) THEN {f} ELSE {}) \cup
      (IF n # f /\ fpage_is_free(P, n) THEN {n} ELSE {})

\* C23: fmem_free of a live allocation returns the size, header included,
\* that its page had before the merge (E_COMMIT_FAILED when the committer
\* fails), clears the busy bit of the page, merges it with the free pages
\* next to it, adds the size to total_available and takes one from
\* alloc_objects.
C23_FreeEffect ==
  [][ (last'.op = "free" /\ last'.ret # EE_BAD_MEM) =>
        LET f == fpage_from_mem(last'.arg)
            s == last'.page
            gone == Absorbed(pg, f)
        IN  /\ f \in DOMAIN pg /\ ~fpage_is_free(pg, f)
            /\ \/ last'.ret = pg[f].size
               \/ /\ last'.ret = E_COMMIT_FAILED
                  /\ Len(calls') = 1 /\ calls'[1].res < 0
            /\ fm'.total_available = fm.total_available + pg[f].size
            /\ fm'.alloc_objects = fm.alloc_objects - 1
            /\ DOMAIN pg' = DOMAIN pg \ gone
            /\ s = (IF f \in gone THEN list_entry(pg[f].prev) ELSE f)
            /\ fpage_is_free(pg', s)
            /\ pg'[s].size = pg[s].size + SumSizes(gone)
            /\ ~fpage_is_free(pg', list_entry(pg'[s].prev))
            /\ ~fpage_is_free(pg', list_entry(pg'[s].next))
            /\ \A a \in DOMAIN pg' \ {s} :
                 pg'[a].size = pg[a].size /\ pg'[a].flags = pg[a].flags ]_vars

\* a free of a page lying between two free pages
C23_Witness ==
  /\ last.op = "free"
  /\ last.ret > 0
  /\ last.npages - Len(Pages) = 2
  /\ pg[last.page].size > last.ret
  /\ fm.alloc_objects >= 1

\* fmem_alloc(fm, n) in the current state and, when it succeeds, fmem_free
\* of the address it returned right after it
AllocThenFree(n) ==
  LET r == fmem_alloc(Machine, handle, n)
  IN  IF r.ret > 0
      THEN LET f == fmem_free(r.m, handle, r.ret)
           IN  [ok |-> TRUE, carved |-> r.carved, mem |-> r.ret, freed |-> f.ret,
                m |-> Tracked(f.m, HeadPage)]
      ELSE [ok |-> FALSE, carved |-> FALSE, mem |-> r.ret, freed |-> 0, m |-> Machine]

\* C24: in every state reached by allocs and frees, a successful alloc(n)
\* followed at once by the free of the address it returned gives back the
\* state: the same page headers in the same order, the same total_available
\* and the same alloc_objects, whether the alloc carved or took a page as is.
C24_AllocFreeRestores ==
  (Created /\ fm.lock = 0) =>
    \A n \in SizeSet :
      \E t \in {AllocThenFree(n)} :
        t.ok => /\ t.m.pg = pg
                /\ t.m.fm.total_available = fm.total_available
                /\ t.m.fm.alloc_objects = fm.alloc_objects
                /\ t.m.fm = fm

\* a state left by the free of an address that the next alloc hands out
\* again by carving, and where a larger request takes a page as is, with
\* other objects allocated
C24_Witness ==
  /\ Created
  /\ last.op = "free"
  /\ last.ret > 0
  /\ fm.alloc_objects >= 1
  /\ \E n \in SizeSet : \E t \in {AllocThenFree(n)} :
       t.ok /\ t.carved /\ t.mem = last.arg
  /\ \E n \in SizeSet : \E t \in {AllocThenFree(n)} : t.ok /\ ~t.carved

\* fmem_free of the live address p in the current state and, right after
\* it, fmem_alloc of the size that was asked for when p was allocated
FreeThenAlloc(p) ==
  LET f == fmem_free(Machine, handle, p)
      k == Tracked(f.m, HeadPage)
      r == fmem_alloc(k, handle, live[p])
  IN  [freed |-> f.ret, mem |-> r.ret, m |-> r.m]

\* the bytes of the page of address mem in the headers P
PageBytes(P, mem) ==
  [start |-> fpage_from_mem(mem), size |-> P[fpage_from_mem(mem)].size]

\* C25 (as claimed): from any reachable state, fmem_free(p) followed at
\* once by fmem_alloc of the size first asked for p returns an address whose
\* page covers the same bytes as the page of p did.
C25_FreeAllocSamePage ==
  (Created /\ fm.lock = 0) =>
    \A p \in DOMAIN live :
      \E t \in {FreeThenAlloc(p)} :
        /\ t.mem > 0
        /\ PageBytes(t.m.pg, t.mem) = PageBytes(pg, p)

\* C25 (amended): the same, for a page of p that both its neighbours in the
\* list are busy (the free merges nothing) and that no free page before it
\* in the list fits the request.
C25_FreeAllocSamePageUnmerged ==
  (Created /\ fm.lock = 0) =>
    \A p \in DOMAIN live :
      (/\ Absorbed(pg, fpage_from_mem(p)) = {}
       /\ \A a \in DOMAIN pg :
            (a < fpage_from_mem(p) /\ fpage_is_free(pg, a)) =>
              fpage_can_fit(pg, a, adjusted_alloc_of(fm, live[p])) = CAN_NOT_FIT)
      => \E t \in {FreeThenAlloc(p)} :
           /\ t.mem = p
           /\ PageBytes(t.m.pg, t.mem) = PageBytes(pg, p)

\* a live page between two busy pages, with a free page before it that is
\* too small for the request and a free page after it that fits
C25_Witness ==
  /\ Created /\ fm.lock = 0
  /\ \E p \in DOMAIN live :
       /\ Absorbed(pg, fpage_from_mem(p)) = {}
       /\ list_entry(pg[fpage_from_mem(p)].prev) # HeadPage
       /\ \A a \in DOMAIN pg :
            (a < fpage_from_mem(p) /\ fpage_is_free(pg, a)) =>
              fpage_can_fit(pg, a, adjusted_alloc_of(fm, live[p])) = CAN_NOT_FIT
       /\ \E a \in DOMAIN pg :
            /\ a > fpage_from_mem(p) /\ fpage_is_free(pg, a)
            /\ fpage_can_fit(pg, a, adjusted_alloc_of(fm, live[p])) # CAN_NOT_FIT
       /\ FreeThenAlloc(p).mem = p

C27_CommitMem ==
  [][ last'.op = "commit_mem" =>
        LET mem == last'.arg
            payload == pg[mem - SizeofFmemPage].size - SizeofFmemPage
            len == IF last'.arg2 = 0 THEN payload ELSE last'.arg2
        IN  /\ mem \in DOMAIN live
            /\ pg' = pg
            /\ fm' = fm
            /\ fm.committer = NULL => (last'.ret = E_COMMIT_FAILED /\ calls' = <<>>)
            /\ (fm.committer # NULL /\ len > payload) =>
                 (last'.ret = E_COMMIT_FAILED /\ calls' = <<>>)
            /\ (fm.committer # NULL /\ len <= payload) =>
                 /\ Len(calls') = 1
                 /\ calls'[1].committer = fm.committer
                 /\ calls'[1].count = 1
                 /\ calls'[1].ranges = <<[start |-> mem, len |-> len]>>
                 /\ calls'[1].res >= 0 => last'.ret = len
                 /\ calls'[1].res < 0 => last'.ret = E_COMMIT_FAILED ]_vars

\* a commit of a whole payload asked for with len 0, under the committer of
\* the example program
C27_Witness ==
  /\ last.op = "commit_mem"
  /\ last.arg2 = 0
  /\ last.ret = pg[fpage_from_mem(last.arg)].size - SizeofFmemPage
  /\ last.ret > MaxSize - 10
  /\ Len(calls) = 1
  /\ fm.committer = TheCommitter

\* C28: in every state reached from fmem_create_new by allocs and frees of
\* live addresses the head page is busy, is the first page of the list and
\* has size H + A; no alloc selects it or returns its payload, and no free
\* merges it away or merges another page into it.
C28_HeadPageFixed ==
  Created =>
    /\ HeadPage \in DOMAIN pg
    /\ Pages[1] = HeadPage
    /\ ~IsFree(HeadPage)
    /\ pg[HeadPage].size = SizeofFmemPage + SizeofFmem
    /\ last.op = "alloc" =>
         /\ last.page # HeadPage
         /\ last.ret # mem_from_fpage(HeadPage)
         /\ last.ret > 0 => last.ret >= HeadPage + SizeofFmemPage + SizeofFmem + SizeofFmemPage
    /\ (last.op = "free" /\ last.ret > 0) =>
         /\ last.page # HeadPage
         /\ last.page >= HeadPage + SizeofFmemPage + SizeofFmem

\* the free of the page right after the head, merged with the free page
\* after it, with another object still allocated
C28_Witness ==
  /\ Created
  /\ last.op = "free"
  /\ last.ret > 0
  /\ last.page = MainPage
  /\ pg[MainPage].size > last.ret
  /\ last.arg = mem_from_fpage(MainPage)
  /\ fm.alloc_objects >= 1

\* C29 (as claimed): with threads calling fmem_alloc and fmem_free at the
\* same time and a scheduler that is fair to every thread, every call
\* returns in the end, and the lock word is 0 whenever no call is in
\* progress.
C29_EveryCallReturns ==
  /\ \A t \in Threads : (pc[t] # "idle") ~> (pc[t] = "idle")
  /\ []((\A t \in Threads : pc[t] = "idle") => fm.lock = 0)

\* C29 (amended): every call that has taken the lock returns, while a call
\* is waiting for the lock some call gets it, and the lock word is 0
\* whenever no call holds it.
C29_LockHoldersReturn ==
  /\ \A t \in Threads : (pc[t] \in InCall) ~> (pc[t] = "idle")
  /\ \A t \in Threads : (pc[t] = "lock") ~> (\E u \in Threads : pc[u] \in InCall)
  /\ []((\A t \in Threads : pc[t] \notin InCall) => fm.lock = 0)

\* one thread in the middle of a free with the lock held while the other
\* waits for the lock with an alloc
C29_Witness ==
  \E t, u \in Threads :
    /\ pc[t] = "fdone" /\ fm.lock = 1
    /\ pc[u] = "lock" /\ tl[u].op = "alloc"
    /\ Cardinality(DOMAIN live) >= 2

\* C30: a successful fmem_alloc sets the busy bit of exactly one page, which
\* carries the magic, takes the size of that page, header included, off
\* total_available, adds one to alloc_objects and returns the address of the
\* page plus H; the busy bit of no other page changes.
C30_AllocEffect ==
  [][ (last'.op = "alloc" /\ last'.ret > 0) =>
        LET s == last'.page
        IN  /\ s \in DOMAIN pg'
            /\ ~fpage_is_free(pg', s)
            /\ s \in DOMAIN pg => fpage_is_free(pg, s)
            /\ fpage_get_magic(pg', s) = POISON
            /\ last'.ret = s + SizeofFmemPage
            /\ fm'.total_available = fm.total_available - pg'[s].size
            /\ fm'.alloc_objects = fm.alloc_objects + 1
            /\ DOMAIN pg \subseteq DOMAIN pg'
            /\ DOMAIN pg' \ DOMAIN pg \subseteq {s}
            /\ \A a \in DOMAIN pg \ {s} :
                 fpage_is_free(pg', a) = fpage_is_free(pg, a) ]_vars

\* an alloc that carved its page while another object was live, two free
\* pages being left
C30_Witness ==
  /\ last.op = "alloc"
  /\ last.ret > 0
  /\ last.carved
  /\ fm.alloc_objects >= 2
  /\ Cardinality({a \in DOMAIN pg : IsFree(a)}) >= 2

----------------------------------------------------------------------------
(* The fit test on 32-bit operands.  fpage->size and size_needed are       *)
(* uint32_t; a value is written as two limbs, hi * 2^16 + lo, and every    *)
(* uint32_t result keeps hi modulo 2^16.                                   *)

WideLess(a, b) == a.hi < b.hi \/ (a.hi = b.hi /\ a.lo < b.lo)

WideLeq(a, b) == ~WideLess(b, a)

\* w + k for 0 <= k < 2^16, not reduced
WideAdd(w, k) ==
  IF w.lo + k < Limb THEN [hi |-> w.hi, lo |-> w.lo + k]
  ELSE [hi |-> w.hi + 1, lo |-> w.lo + k - Limb]

\* (uint32_t) (a - b)
WideMinus(a, b) ==
  IF a.lo >= b.lo THEN Uint32([hi |-> a.hi - b.hi, lo |-> a.lo - b.lo])
  ELSE Uint32([hi |-> a.hi - b.hi - 1, lo |-> a.lo + Limb - b.lo])

FitLimbs == {0, Limb - 1}
FitSizeLows == {SizeofFmemPage, SizeofFmemPage + 1, 3 * SizeofFmemPage,
                3 * SizeofFmemPage + 1, 5 * SizeofFmemPage, 10 * SizeofFmemPage,
                Limb - 4 * SizeofFmemPage, Limb - SizeofFmemPage, Limb - 2, Limb - 1}
FitNeedLows == {0, 1, SizeofFmemPage, PAGE_REMAIN_FREE, PAGE_REMAIN_FREE + 1,
                2 * SizeofFmemPage, 4 * SizeofFmemPage, 10 * SizeofFmemPage,
                Limb - 4 * SizeofFmemPage, Limb - PAGE_REMAIN_FREE - 1,
                Limb - PAGE_REMAIN_FREE, Limb - SizeofFmemPage - 1, Limb - 1}
FitSizes == {[hi |-> h, lo |-> l] : h \in FitLimbs, l \in FitSizeLows}
FitNeeds == {[hi |-> h, lo |-> l] : h \in FitLimbs, l \in FitNeedLows}

fpage_actual_wide(size) == Uint32(WideSub(size, PAGE_OVERHEAD))

\* variant: the sum size_needed + PAGE_REMAIN_FREE is not reduced to 32 bits
fpage_can_fit_wide_exact(size, size_needed) ==
  LET actual == fpage_actual_wide(size)
  IN  IF WideLess(actual, size_needed) THEN CAN_NOT_FIT
      ELSE IF WideLeq(actual, WideAdd(size_needed, PAGE_REMAIN_FREE)) THEN FIT_AS_IS
      ELSE FIT_WITH_CARVE

fpage_can_fit_wide(size, size_needed) ==
  LET actual == fpage_actual_wide(size)
  IN  IF WideLess(actual, size_needed) THEN CAN_NOT_FIT
      ELSE IF WideLeq(actual, Uint32(WideAdd(size_needed, PAGE_REMAIN_FREE))) THEN FIT_AS_IS
      ELSE FIT_WITH_CARVE

\* fpage_carve lines 49-51: the size left to the page carved from
fpage_carve_wide(size, to_carve) ==
  LET actual_needed == Uint32(WideAdd(to_carve, PAGE_OVERHEAD))
  IN  WideMinus(size, actual_needed)

\* test_fpage_fit: a page of the given size is made and asked for a fit;
\* where alloc would carve, the size left to the page is recorded
FpageCanFit(size, needed) ==
  /\ last.op = "none"
  /\ \E fit \in {fpage_can_fit_wide(size, needed)} :
       last' = [op |-> "fpage_can_fit", arg |-> size, arg2 |-> needed, ret |-> fit,
                left |-> IF fit = FIT_WITH_CARVE THEN fpage_carve_wide(size, needed)
                         ELSE size]
  /\ UNCHANGED <<pg, fm, length, handle, live, disk, diskFm, synced, calls,
                 pc, tl, seqPg, seqFm>>

FitNext == \E size \in FitSizes, needed \in FitNeeds : FpageCanFit(size, needed)

FitSpec == Init /\ [][FitNext]_vars

----------------------------------------------------------------------------
(* The page layer on its own: fpage_carve and fpage_merge applied to the   *)
(* pages of every list the allocator builds.                               *)

\* the sizes carved from a page: the page keeps room for its own header
CarveSizes(P, fpage) ==
  {n \in SizeSet \cup {0, DEFAULT_MIN_ALLOC, P[fpage].size - 2 * PAGE_OVERHEAD} :
     n >= 0 /\ n + 2 * PAGE_OVERHEAD <= P[fpage].size}

\* C32: after carve(p, n) the sizes of p and of the created page add up to
\* the size p had, the created page has size n + H, starts at p plus the size
\* p keeps (the higher address), follows p in the list and is followed by
\* p's former successor; p keeps its flags.
C32_CarveEffect ==
  Created =>
    \A p \in Range(Pages) : \A n \in CarveSizes(pg, p) :
      LET r   == fpage_carve(pg, p, n)
          new == r.created
      IN  /\ r.P[p].size + r.P[new].size = pg[p].size
          /\ r.P[new].size = n + SizeofFmemPage
          /\ new = p + r.P[p].size
          /\ new > p
          /\ r.P[p].next = ListOf(new)
          /\ r.P[new].prev = ListOf(p)
          /\ r.P[new].next = pg[p].next
          /\ r.P[list_entry(pg[p].next)].prev = ListOf(new)
          /\ r.P[p].flags = pg[p].flags
          /\ r.P[p].prev = IF pg[p].prev = ListOf(p) THEN ListOf(new) ELSE pg[p].prev

\* an alloc has carved its page, and the list holds a free page with room
\* for the largest size and a busy page with room for a carve, each followed
\* by a page other than the head
C32_Witness ==
  /\ Created /\ last.op = "alloc" /\ last.ret > 0 /\ last.carved
  /\ \E p \in Range(Pages) :
       /\ IsFree(p) /\ MaxSize \in CarveSizes(pg, p)
       /\ pg[p].next # ListOf(HeadPage)
  /\ \E q \in Range(Pages) \ {HeadPage} :
       /\ ~IsFree(q) /\ CarveSizes(pg, q) # {}
       /\ pg[q].next # ListOf(HeadPage)

RECURSIVE SumSizesOf(_, _)
SumSizesOf(P, S) ==
  IF S = {} THEN 0
  ELSE LET a == CHOOSE x \in S : TRUE IN P[a].size + SumSizesOf(P, S \ {a})

\* the pages merge(p) puts together: p and each neighbour that is free and
\* is not p itself
MergedRun(P, p) ==
  LET prev == list_entry(P[p].prev)
      next == list_entry(P[p].next)
  IN  {p} \cup {a \in {prev, next} : a # p /\ fpage_is_free(P, a)}

Lowest(S) == CHOOSE a \in S : \A b \in S : a <= b

\* a sequence without the elements of S
RECURSIVE Without(_, _)
Without(s, S) ==
  IF s = <<>> THEN <<>>
  ELSE IF Head(s) \in S THEN Without(Tail(s), S)
  ELSE <<Head(s)>> \o Without(Tail(s), S)

\* C33: merge(p) on a free page p takes out of the list one page per free
\* neighbour, returns the lowest page of the merged run, whose size becomes
\* the sum of the sizes of the run, leaves the size and flags of every other
\* page and the order of the list as they were, and keeps the total of all
\* sizes; with both neighbours free the three pages become one, with none
\* free nothing changes.
C33_MergeEffect ==
  Created =>
    \A p \in Range(Pages) \ {HeadPage} :
      LET P1   == fpage_set_free(pg, p)
          run  == MergedRun(P1, p)
          r    == fpage_merge(P1, p)
          gone == run \ {r.ret}
          after == PageList(r.P, HeadPage)
      IN  /\ Len(after) = Len(Pages) - (Cardinality(run) - 1)
          /\ r.ret = Lowest(run)
          /\ after = Without(Pages, gone)
          /\ r.P[r.ret].size = SumSizesOf(P1, run)
          /\ \A a \in Range(after) \ {r.ret} :
               r.P[a].size = P1[a].size /\ r.P[a].flags = P1[a].flags
          /\ r.P[r.ret].flags = P1[r.ret].flags
          /\ SumSizesOf(r.P, Range(after)) = SumSizesOf(P1, Range(Pages))
          /\ Cardinality(run) = 3 => Cardinality(gone) = 2
          /\ Cardinality(run) = 1 => r.P = P1

\* a free has completed; one busy page lies between two free pages, another
\* page has a free neighbour on one side only or none
C33_Witness ==
  /\ Created /\ last.op = "free" /\ last.ret > 0
  /\ \E p \in Range(Pages) \ {HeadPage} :
       ~IsFree(p) /\ Cardinality(MergedRun(pg, p)) = 3
  /\ \E q \in Range(Pages) \ {HeadPage} :
       ~IsFree(q) /\ Cardinality(MergedRun(pg, q)) < 3

----------------------------------------------------------------------------
(* list/list.c on its own, as its tests use it: an array of carriers, the  *)
(* first one the head of the list, the others added and removed in any     *)
(* order.  seqPg holds the carriers the calls have put in the list, in the *)
(* order the calls give them: the reference the pointers are held against. *)

SizeofCarrier == 24     \* struct carrier: char content, struct list_head list
MaxCarriers   == 3      \* carriers other than the head

ListHead == RegionBase
Carriers == {RegionBase + i * SizeofCarrier : i \in 1..MaxCarriers}

ZeroCarrier == [content |-> 0, next |-> NULL, prev |-> NULL]

\* list_for_each and list_for_each_backward from the entry of carrier h
ForEach(P, h) ==
  ListFrom(P, P[h].next, ListOf(h), Cardinality(DOMAIN P))

ForEachBackward(P, h) ==
  ListFromBackward(P, P[h].prev, ListOf(h), Cardinality(DOMAIN P))

\* the position of a carrier in the list, the head at 0
Pos(s, c) == IF c = ListHead THEN 0 ELSE CHOOSE i \in 1..Len(s) : s[i] = c

InsertAt(s, i, c) == SubSeq(s, 1, i) \o <<c>> \o SubSeq(s, i + 1, Len(s))

ListInit ==
  /\ pg = list_head_init([c \in {ListHead} \cup Carriers |->
                            [ZeroCarrier EXCEPT !.content = c]], ListOf(ListHead))
  /\ seqPg = <<>>
  /\ fm = ZeroFm
  /\ length = 0
  /\ handle = NULL
  /\ live = [a \in {} |-> 0]
  /\ disk = [a \in {} |-> ZeroPage]
  /\ diskFm = ZeroFm
  /\ synced = FALSE
  /\ last = NoCall
  /\ calls = <<>>
  /\ pc = [t \in Threads |-> "idle"]
  /\ tl = [t \in Threads |-> NoLocals]
  /\ seqFm = ZeroFm

ListFrame == UNCHANGED <<fm, length, handle, live, disk, diskFm, synced, calls,
                         pc, tl, seqFm>>

ListHeadInit ==
  /\ pg' = list_head_init(pg, ListOf(ListHead))
  /\ seqPg' = <<>>
  /\ last' = [NoCall EXCEPT !.op = "init", !.arg = ListHead]
  /\ ListFrame

ListAddAfter(current, new) ==
  /\ current \in {ListHead} \cup Range(seqPg)
  /\ new \in Carriers \ Range(seqPg)
  /\ pg' = list_add_after(pg, ListOf(current), ListOf(new))
  /\ seqPg' = InsertAt(seqPg, Pos(seqPg, current), new)
  /\ last' = [NoCall EXCEPT !.op = "add_after", !.arg = current, !.arg2 = new]
  /\ ListFrame

ListAddBefore(current, new) ==
  /\ current \in {ListHead} \cup Range(seqPg)
  /\ new \in Carriers \ Range(seqPg)
  /\ pg' = list_add_before(pg, ListOf(current), ListOf(new))
  /\ seqPg' = IF current = ListHead THEN Append(seqPg, new)
              ELSE InsertAt(seqPg, Pos(seqPg, current) - 1, new)
  /\ last' = [NoCall EXCEPT !.op = "add_before", !.arg = current, !.arg2 = new]
  /\ ListFrame

ListRemoveAt(current) ==
  /\ current \in Range(seqPg)
  /\ pg' = list_remove_at(pg, ListOf(current))
  /\ seqPg' = Without(seqPg, {current})
  /\ last' = [NoCall EXCEPT !.op = "remove_at", !.arg = current]
  /\ ListFrame

ListNext ==
  \/ ListHeadInit
  \/ \E current \in {ListHead} \cup Carriers, new \in Carriers :
       ListAddAfter(current, new)
  \/ \E current \in {ListHead} \cup Carriers, new \in Carriers :
       ListAddBefore(current, new)
  \/ \E current \in Carriers : ListRemoveAt(current)

ListSpec == ListInit /\ [][ListNext]_vars

Reverse(s) == [i \in 1..Len(s) |-> s[Len(s) + 1 - i]]

\* the ring of the list read from its i-th carrier, that carrier left out
RingFrom(ring, i) == SubSeq(ring, i + 1, Len(ring)) \o SubSeq(ring, 1, i - 1)

\* C34: in a list built with init, add_after, add_before and remove, the
\* forward iteration from a head visits every other carrier of the list once,
\* in next-order, and ends; the backward iteration visits the same carriers in
\* the reverse order; over a head just initialised both visit nothing.
C34_Iteration ==
  LET ring == <<ListHead>> \o seqPg
  IN  /\ \A i \in 1..Len(ring) :
           /\ ForEach(pg, ring[i]) = RingFrom(ring, i)
           /\ ForEachBackward(pg, ring[i]) = Reverse(RingFrom(ring, i))
      /\ \A i, j \in 1..Len(seqPg) : seqPg[i] = seqPg[j] => i = j
      /\ last.op = "init" => ForEach(pg, ListHead) = <<>> /\ ForEachBackward(pg, ListHead) = <<>>

\* a carrier was removed from between two others, which are left in the
\* list against the order of their addresses
C34_Witness ==
  /\ last.op = "remove_at"
  /\ Len(seqPg) = 2
  /\ seqPg[1] > seqPg[2]
  /\ pg[last.arg].next # ListOf(ListHead)
  /\ pg[last.arg].prev # ListOf(ListHead)

\* the carriers of the list as the pointers give them, the head first
Ring(P) == <<ListHead>> \o ForEach(P, ListHead)

LinksConsistent(P) ==
  \A n \in Range(Ring(P)) :
    /\ list_entry(P[n].next) \in Range(Ring(P))
    /\ list_entry(P[n].prev) \in Range(Ring(P))
    /\ P[list_entry(P[n].next)].prev = ListOf(n)
    /\ P[list_entry(P[n].prev)].next = ListOf(n)

\* C35: after any init, add_after, add_before and remove on the carriers of
\* one list, every carrier n in the list has n.next.prev = n and
\* n.prev.next = n; add_after(cur, new) makes new the successor of cur,
\* add_before(cur, new) makes it the predecessor of cur, remove(node) takes
\* node out, and each leaves the other carriers in the order they had.
C35_LinksAndOrder ==
  [][ /\ LinksConsistent(pg)
      /\ LinksConsistent(pg')
      /\ last'.op = "add_after" =>
           /\ pg'[last'.arg].next = ListOf(last'.arg2)
           /\ pg'[last'.arg2].prev = ListOf(last'.arg)
           /\ last'.arg2 \notin Range(Ring(pg))
           /\ Without(Ring(pg'), {last'.arg2}) = Ring(pg)
      /\ last'.op = "add_before" =>
           /\ pg'[last'.arg].prev = ListOf(last'.arg2)
           /\ pg'[last'.arg2].next = ListOf(last'.arg)
           /\ last'.arg2 \notin Range(Ring(pg))
           /\ Without(Ring(pg'), {last'.arg2}) = Ring(pg)
      /\ last'.op = "remove_at" =>
           /\ last'.arg \in Range(Ring(pg))
           /\ last'.arg \notin Range(Ring(pg'))
           /\ Ring(pg') = Without(Ring(pg), {last'.arg})
      /\ last'.op = "init" => Ring(pg') = <<ListHead>> ]_vars

\* add_before has put a carrier between two others, which stand in the list
\* against the order of their addresses
C35_Witness ==
  /\ last.op = "add_before"
  /\ last.arg # ListHead
  /\ Len(seqPg) = 3
  /\ seqPg[2] = last.arg2
  /\ seqPg[3] < seqPg[1]

----------------------------------------------------------------------------
(* Accounting bounds, failed allocs, magic stamps and repeated frees.      *)

\* C36: in every state reached from create_new by alloc and free,
\* total_available lies in 0..total_size: the subtraction in alloc never
\* takes it below zero, also when alloc uses the last free page as it is.
C36_AvailableInRange ==
  Created => (0 <= fm.total_available /\ fm.total_available <= fm.total_size)

\* C37: an alloc that returns FMEM_E_NOMEM leaves every page header,
\* total_available and alloc_objects as they were, leaves the lock word 0
\* and makes no call of the committer.
C37_NoMemFrame ==
  [][ (last'.op = "alloc" /\ last'.ret = FMEM_E_NOMEM) =>
        /\ pg' = pg
        /\ fm'.total_available = fm.total_available
        /\ fm'.alloc_objects = fm.alloc_objects
        /\ fm' = fm
        /\ fm'.lock = 0
        /\ calls' = <<>>
        /\ disk' = disk /\ diskFm' = diskFm
        /\ live' = live ]_vars

\* an alloc failed after walking the list: total_available covered the size
\* asked for, free pages were there, none large enough, and a committer was
\* installed
C37_Witness ==
  /\ last.op = "alloc"
  /\ last.ret = FMEM_E_NOMEM
  /\ fm.committer # NULL
  /\ fm.alloc_objects >= 1
  /\ ~SizeTLess(fm.total_available, adjusted_alloc_of(fm, last.arg))
  /\ Cardinality({a \in Range(Pages) : IsFree(a)}) >= 2

\* the poison check a call makes on entry, on the headers it finds
PoisonCheckOf(P, a) == fail_on_poison_check(fpage_get_magic(P, a), POISON)

\* C38: with corruption detection on, after create_new and after every
\* completed alloc or free each page of the list carries the magic 0xBEEF, a
\* carved page included; so, no client having overwritten a header, the
\* poison check of no alloc, free, reopen or commit fails, and the value -2
\* comes back only from a commit that failed, was refused or had no committer.
C38_MagicEverywhere ==
  [][ handle' > 0 =>
        /\ \A a \in Range(PageList(pg', HeadPage)) : fpage_get_magic(pg', a) = POISON
        /\ DOMAIN pg' = Range(PageList(pg', HeadPage))
        /\ last'.op \in {"reopen", "commit_user_data"} => PoisonCheckOf(pg, HeadPage) = 0
        /\ last'.op \in {"free", "commit_mem"} =>
             /\ fpage_from_mem(last'.arg) \in DOMAIN pg
             /\ PoisonCheckOf(pg, fpage_from_mem(last'.arg)) = 0
        /\ last'.op = "alloc" =>
             /\ \A a \in Range(PageList(pg, HeadPage)) : PoisonCheckOf(pg, a) = 0
             /\ ~WalkReachesBad(pg, fm, adjusted_alloc_of(fm, last'.arg))
        /\ (last'.op \in {"alloc", "free", "reopen"} /\ last'.ret = EE_BAD_MEM) =>
             (Len(calls') = 1 /\ calls'[1].res < 0)
        /\ (last'.op \in {"commit_user_data", "commit_mem"} /\ last'.ret = EE_BAD_MEM) =>
             \/ fm.committer = NULL
             \/ Len(calls') = 1 /\ calls'[1].res < 0
             \/ last'.op = "commit_mem" /\ last'.arg2 > fpage_actual(pg, fpage_from_mem(last'.arg)) ]_vars

\* the bytes of a page carved by an alloc were committed with success by
\* the committer of the example program
C38_Witness ==
  /\ last.op = "commit_mem"
  /\ last.ret > 0
  /\ fpage_from_mem(last.arg) # MainPage
  /\ Len(Pages) = 3
  /\ fm.committer = TheCommitter

\* a client frees again the address it has just freed (test_fmem_commit
\* frees alloc3 twice).  The step is taken where the header of the address
\* is still a page of the list, which is then free: the page stayed in
\* place, or took in its successor.  It is taken once per region, while the
\* accounting still agrees with the list.
FmemFreeAgain ==
  /\ handle > 0
  /\ Idle
  /\ fm.lock = 0
  /\ last.op = "free"
  /\ last.ret # EE_BAD_MEM
  /\ last.arg \notin DOMAIN live
  /\ fpage_from_mem(last.arg) \in DOMAIN pg
  /\ fm.alloc_objects = Cardinality({a \in DOMAIN pg \ {HeadPage} : ~fpage_is_free(pg, a)})
  /\ \E r \in {fmem_free(Machine, handle, last.arg)} :
     \E k \in {Tracked(r.m, fpage_from_mem(handle))} :
         /\ pg' = k.pg
         /\ fm' = k.fm
         /\ disk' = k.disk
         /\ diskFm' = k.diskFm
         /\ synced' = (synced /\ fm.committer = CopyCommitter)
         /\ last' = [op |-> "free", arg |-> last.arg, arg2 |-> 0, arg3 |-> 0, ret |-> r.ret,
                     carved |-> FALSE, page |-> r.modified,
                     npages |-> Len(PageList(pg, HeadPage)),
                     first_fit |-> NULL]
         /\ calls' = r.calls
  /\ UNCHANGED <<live, length, handle, pc, tl, seqPg, seqFm>>

DoubleFreeNext ==
  \/ \E len \in PoisonLengthSet, committer \in {NULL, CopyCommitter} :
       FmemCreateNew(len, DEFAULT_MIN_ALLOC, committer)
  \/ \E size \in ApiSizeSet : FmemAlloc(size)
  \/ \E mem \in DOMAIN live : FmemFree(mem)
  \/ FmemFreeAgain

DoubleFreeSpec == Init /\ [][DoubleFreeNext]_vars

\* C39: a free of an address whose page is already free (a second free of
\* the same allocation) changes neither alloc_objects nor total_available nor
\* the list of pages.
C39_SecondFreeNoEffect ==
  [][ ( /\ last'.op = "free"
        /\ fpage_from_mem(last'.arg) \in DOMAIN pg
        /\ fpage_is_free(pg, fpage_from_mem(last'.arg)) ) =>
        /\ fm'.alloc_objects = fm.alloc_objects
        /\ fm'.total_available = fm.total_available
        /\ pg' = pg ]_vars

----------------------------------------------------------------------------
(* The flag word on its own, as test_fpage_flags_handling uses it: one     *)
(* page, whose flags hold any value, and the three setters in any order.   *)

FlagsPageSize == 200
MaxMagic == 65535       \* the largest uint16_t

FlagHalves == {0, 1, BusyBit - 1, BusyBit, BusyBit + 1, MaxMagic - 1}
MagicSet   == {0, 123, 2022, POISON, MaxMagic}

FlagsInit ==
  /\ \E h \in FlagHalves, l \in FlagHalves :
       pg = list_head_init(
              (RegionBase :> [ZeroPage EXCEPT !.size = FlagsPageSize,
                                              !.flags = [hi |-> h, lo |-> l]]),
              ListOf(RegionBase))
  /\ seqPg = pg
  /\ fm = ZeroFm
  /\ length = 0
  /\ handle = NULL
  /\ live = [a \in {} |-> 0]
  /\ disk = [a \in {} |-> ZeroPage]
  /\ diskFm = ZeroFm
  /\ synced = FALSE
  /\ last = NoCall
  /\ calls = <<>>
  /\ pc = [t \in Threads |-> "idle"]
  /\ tl = [t \in Threads |-> NoLocals]
  /\ seqFm = ZeroFm

FlagsFrame == UNCHANGED <<fm, length, handle, live, disk, diskFm, synced, calls,
                          pc, tl, seqPg, seqFm>>

FpageSetMagic(magic) ==
  /\ pg' = fpage_set_magic(pg, RegionBase, magic)
  /\ last' = [NoCall EXCEPT !.op = "set_magic", !.arg = magic,
                            !.ret = fpage_get_magic(pg', RegionBase)]
  /\ FlagsFrame

FpageSetBusy ==
  /\ pg' = fpage_set_busy(pg, RegionBase)
  /\ last' = [NoCall EXCEPT !.op = "set_busy", !.ret = fpage_get_magic(pg', RegionBase)]
  /\ FlagsFrame

FpageSetFree ==
  /\ pg' = fpage_set_free(pg, RegionBase)
  /\ last' = [NoCall EXCEPT !.op = "set_free", !.ret = fpage_get_magic(pg', RegionBase)]
  /\ FlagsFrame

FlagsNext ==
  \/ \E magic \in MagicSet : FpageSetMagic(magic)
  \/ FpageSetBusy
  \/ FpageSetFree

FlagsSpec == FlagsInit /\ [][FlagsNext]_vars

\* the low half of the flags without bit 15
BelowBusy(P, a) == P[a].flags.lo % BusyBit

\* C40: for every flags value and every 16-bit magic m, set_magic(m) makes
\* get_magic return m and leaves the low 16 bits, busy bit included, as they
\* were; set_busy and set_free change bit 15 only: get_magic is as before,
\* is_free is false after set_busy and true after set_free.
C40_FlagsIndependent ==
  [][ /\ last'.op = "set_magic" =>
           /\ fpage_get_magic(pg', RegionBase) = last'.arg
           /\ pg'[RegionBase].flags.lo = pg[RegionBase].flags.lo
           /\ fpage_is_free(pg', RegionBase) = fpage_is_free(pg, RegionBase)
      /\ last'.op \in {"set_busy", "set_free"} =>
           /\ fpage_get_magic(pg', RegionBase) = fpage_get_magic(pg, RegionBase)
           /\ BelowBusy(pg', RegionBase) = BelowBusy(pg, RegionBase)
           /\ pg'[RegionBase].flags.lo \in 0..MaxMagic
           /\ fpage_is_free(pg', RegionBase) = (last'.op = "set_free")
      /\ pg'[RegionBase].size = pg[RegionBase].size
      /\ pg'[RegionBase].next = pg[RegionBase].next
      /\ pg'[RegionBase].prev = pg[RegionBase].prev ]_vars

\* the magic 123 was stored in the flags of a busy page whose low half has
\* every bit set
C40_Witness ==
  /\ last.op = "set_magic"
  /\ last.arg = 123
  /\ last.ret = 123
  /\ ~fpage_is_free(pg, RegionBase)
  /\ BelowBusy(pg, RegionBase) = BusyBit - 1

====
